---- MODULE Spec2Model ----
(***************************************************************************)
(* Model of the PDV cluster balancer                                       *)
(* (src/mkp_clusterization/domain/pdv_cluster_balanceador.py).             *)
(*                                                                         *)
(* A PDV is a record [lat, lon, cluster_label]; its identity is its index  *)
(* in the list pdvs.  A centre is a record [cluster_label, lat, lon].      *)
(* All coordinates lie on one meridian (lon = 0) at whole grid steps of    *)
(* latitude, one step being 10 km of great-circle distance, so that every  *)
(* distance and every travel time of the model is an exact integer.        *)
(*                                                                         *)
(* Inputs are those the balancer accepts after its parameter validation,   *)
(* with at least one PDV and max_iter >= 1; a PDV may arrive unlabelled.   *)
(***************************************************************************)
EXTENDS Integers, Sequences, FiniteSets, TLC

\* ---------------------------------------------------------------- bounds
NumPDV == 3
MaxCap == 2
MaxIter == 2

\* ------------------------------------------------------ program constants
\* PDV.cluster_label is Optional[int]; None is modelled by -1.
None == -1
\* the sentinel travel time of _tempo_min for a non-positive speed
TempoInfinito == 999999
\* the neighbour radius the pipeline passes to the balancer
max_merge_km == 10

\* --------------------------------------------------------- input domains
\* the grid latitudes, and the labels the centres on them can carry
Lats == {0, 1, 2}
Labels == 0..(Cardinality(Lats) - 1)
Velocidades == {60}
TemposMax == {10}

VARIABLES
    pdvs,            \* the list of PDVs (mutated in place: cluster_label)
    centros,         \* the balancer's working list of active centres
    min_pdv, max_pdv, tempo_max_min, v_kmh, max_iter,   \* parameters
    pc,              \* position in balancear_clusters_pdv
    it,              \* loop variable of the iteration loop
    counts,          \* running count dict of the step in progress
    fila,            \* acima / abaixo: the (lbl, qtd) pairs still to process
    lbl,             \* label of the centre being processed
    excedente,       \* remaining excess of the centre being processed
    vizinhos,        \* neighbour centres / outros_centros of that centre
    pdvs_cluster,    \* indices of the PDVs of that centre, farthest first
    i,               \* index into pdvs_cluster (or into pdvs during repair)
    alteracoes,      \* move counter of the step in progress
    mov_excesso, mov_deficit,
    centros_ativos,  \* working list of the deficit step
    centros_final,   \* returned list of centres
    erro,            \* "" or the message of the raised ValueError
    pdvs_in, centros_in,  \* the caller's input, kept for comparison
    reparos,         \* label changes made by the repair of this iteration
    pdvs_rep,        \* the PDVs as the repair of this iteration left them
    ult,             \* record of the last step, for properties about steps
    avisos,          \* the logger.warning calls of the call so far: (kind, label)
    descartados,     \* the "descartado centro" log lines: label, iteration, PDVs moved
    chamada,         \* which call of the balancer this is (n), and how the one before ended
    pipe             \* the caller: position and run record of execute, or a direct call

vars == <<pdvs, centros, min_pdv, max_pdv, tempo_max_min, v_kmh, max_iter,
          pc, it, counts, fila, lbl, excedente, vizinhos, pdvs_cluster, i,
          alteracoes, mov_excesso, mov_deficit, centros_ativos,
          centros_final, erro, pdvs_in, centros_in, reparos, pdvs_rep, ult,
          avisos, descartados, chamada, pipe>>

\* ================================================================ helpers
Abs(x) == IF x < 0 THEN -x ELSE x

\* great-circle distance in km of two (lat, lon) pairs on one meridian
haversine(a, b) == 10 * Abs(a[1] - b[1])

tempo_min_semguarda(dist_km, v) ==
    IF v <= 0 THEN 0 ELSE (dist_km * 60) \div v
tempo_min(dist_km, v) ==
    IF v <= 0 THEN TempoInfinito ELSE (dist_km * 60) \div v

dist_pdv_centro_km(p, c) == haversine(<<p.lat, p.lon>>, <<c.lat, c.lon>>)

tempo_pdv_centro_min(p, c, v) == tempo_min(dist_pdv_centro_km(p, c), v)

\* Stable sort of the sequence s by ascending integer key; key is a function
\* over 1..Len(s) giving the key of each position.  OrdemEstavel is the
\* resulting order of the positions, OrdenaEstavel the sorted sequence.
RECURSIVE InsereOrd(_, _, _)
InsereOrd(x, ord, key) ==
    IF ord = <<>> THEN <<x>>
    ELSE IF key[x] < key[Head(ord)] THEN <<x>> \o ord
    ELSE <<Head(ord)>> \o InsereOrd(x, Tail(ord), key)

RECURSIVE OrdemEstavel(_, _)
OrdemEstavel(n, key) ==
    IF n = 0 THEN <<>> ELSE InsereOrd(n, OrdemEstavel(n - 1, key), key)

OrdenaEstavel(s, key) ==
    LET ord == OrdemEstavel(Len(s), key)
    IN [k \in 1..Len(s) |-> s[ord[k]]]

\* number of PDVs of ps carrying label l
NumComLabel(ps, l) == Cardinality({k \in 1..Len(ps) : ps[k].cluster_label = l})

\* _contagens: the dict as a function with default 0 ...
contagens(ps) == [l \in Labels |-> NumComLabel(ps, l)]

\* ... and its keys in insertion order (first appearance in the list)
RECURSIVE ChavesContagens(_)
ChavesContagens(ps) ==
    IF ps = <<>> THEN <<>>
    ELSE LET ant == ChavesContagens(SubSeq(ps, 1, Len(ps) - 1))
             l == ps[Len(ps)].cluster_label
         IN IF l = None \/ \E k \in 1..Len(ant) : ant[k] = l
            THEN ant ELSE Append(ant, l)

\* _centros_por_label: the centre of cs with label l (<<>> when absent)
centros_por_label(cs, l) == SelectSeq(cs, LAMBDA c : c.cluster_label = l)

\* _pdvs_do_label: the indices of the PDVs of label l, in list order
pdvs_do_label(ps, l) ==
    SelectSeq([k \in 1..Len(ps) |-> k], LAMBDA k : ps[k].cluster_label = l)

\* _labels_ativos, as the set the callers make of it
labels_ativos(cs) == {cs[k].cluster_label : k \in 1..Len(cs)}

\* _vizinhanca_centros
vizinhanca_centros_mut(centro_ref, cs, raio) ==
    LET d(c) == haversine(<<centro_ref.lat, centro_ref.lon>>, <<c.lat, c.lon>>)
        viz == SelectSeq(cs, LAMBDA c :
                   c.cluster_label # centro_ref.cluster_label /\ d(c) <= raio)
        c2 == [k \in 1..Len(viz) |->
                 [cluster_label |-> viz[k].cluster_label, lat |-> d(viz[k]),
                  lon |-> viz[k].lon, dist_km_from_ref |-> d(viz[k])]]
    IN OrdenaEstavel(c2, [k \in 1..Len(c2) |-> c2[k].dist_km_from_ref])
vizinhanca_centros_semraio(centro_ref, cs, raio) ==
    LET d(c) == haversine(<<centro_ref.lat, centro_ref.lon>>, <<c.lat, c.lon>>)
        viz == SelectSeq(cs, LAMBDA c : c.cluster_label # centro_ref.cluster_label)
        c2 == [k \in 1..Len(viz) |->
                 [cluster_label |-> viz[k].cluster_label, lat |-> viz[k].lat,
                  lon |-> viz[k].lon, dist_km_from_ref |-> d(viz[k])]]
    IN OrdenaEstavel(c2, [k \in 1..Len(c2) |-> c2[k].dist_km_from_ref])
vizinhanca_centros(centro_ref, cs, raio) ==
    LET d(c) == haversine(<<centro_ref.lat, centro_ref.lon>>, <<c.lat, c.lon>>)
        viz == SelectSeq(cs, LAMBDA c :
                   c.cluster_label # centro_ref.cluster_label /\ d(c) <= raio)
        c2 == [k \in 1..Len(viz) |->
                 [cluster_label |-> viz[k].cluster_label, lat |-> viz[k].lat,
                  lon |-> viz[k].lon, dist_km_from_ref |-> d(viz[k])]]
    IN OrdenaEstavel(c2, [k \in 1..Len(c2) |-> c2[k].dist_km_from_ref])

\* _candidatos_para_pdv, the capacity test: "if cap <= 0: continue"
tem_capacidade_nunca(c, cnt, maxp) == FALSE
tem_capacidade_mut(c, cnt, maxp) == ~(maxp - cnt[c.cluster_label] < 0)
tem_capacidade(c, cnt, maxp) == ~(maxp - cnt[c.cluster_label] <= 0)

\* _candidatos_para_pdv, the time test: "if t > tempo_max_min: continue"
dentro_do_tempo_folga(p, c, v, tmax) ==
    ~(tempo_min(dist_pdv_centro_km(p, c), v) > tmax + 10)
dentro_do_tempo_mut(p, c, v, tmax) == TRUE
dentro_do_tempo(p, c, v, tmax) == ~(tempo_min(dist_pdv_centro_km(p, c), v) > tmax)

\* _candidatos_para_pdv, cand.sort(key = (tempo, dist)): by distance, then
\* stably by time
ordena_candidatos_mut(p, cand, v) ==
    LET d(c) == dist_pdv_centro_km(p, c)
    IN OrdenaEstavel(cand, [k \in 1..Len(cand) |-> 0 - d(cand[k])])
ordena_candidatos_semordem(p, cand, v) == cand
ordena_candidatos(p, cand, v) ==
    LET t(c) == tempo_min(dist_pdv_centro_km(p, c), v)
        d(c) == dist_pdv_centro_km(p, c)
        porDist == OrdenaEstavel(cand, [k \in 1..Len(cand) |-> d(cand[k])])
    IN OrdenaEstavel(porDist, [k \in 1..Len(porDist) |-> t(porDist[k])])

\* _candidatos_para_pdv; restringe = (max_merge_km and centro_ref are given)
candidatos_para_pdv_semraio(p, cs, cnt, maxp, tmax, v, restringe, centro_ref) ==
    LET viavel(c) ==
            /\ tem_capacidade(c, cnt, maxp)
            /\ dentro_do_tempo(p, c, v, tmax)
    IN ordena_candidatos(p, SelectSeq(cs, viavel), v)
candidatos_para_pdv(p, cs, cnt, maxp, tmax, v, restringe, centro_ref) ==
    LET viavel(c) ==
            /\ tem_capacidade(c, cnt, maxp)
            /\ (restringe =>
                  ~(haversine(<<centro_ref.lat, centro_ref.lon>>,
                              <<c.lat, c.lon>>) > max_merge_km))
            /\ dentro_do_tempo(p, c, v, tmax)
    IN ordena_candidatos(p, SelectSeq(cs, viavel), v)

\* the PDV indices s sorted farthest first from centre c (stable)
OrdenaBorda_perto(s, ps, c) ==
    OrdenaEstavel(s, [k \in 1..Len(s) |-> dist_pdv_centro_km(ps[s[k]], c)])
OrdenaBorda_semordem(s, ps, c) == s
OrdenaBorda(s, ps, c) ==
    OrdenaEstavel(s, [k \in 1..Len(s) |-> 0 - dist_pdv_centro_km(ps[s[k]], c)])

\* list.sort(key = qtd), ascending or (reverse=True) descending, stable
OrdenaPorQtd_semordem(s, desc) == s
OrdenaPorQtd(s, desc) ==
    OrdenaEstavel(s, [k \in 1..Len(s) |-> IF desc THEN 0 - s[k][2] ELSE s[k][2]])

\* [c for c in centros_ativos if int(c["cluster_label"]) != lbl]
SemCentro_ultimo(cs, l) == SubSeq(cs, 1, Len(cs) - 1)
SemCentro_primeiro(cs, l) == Tail(cs)
SemCentro_igual(cs, l) == SelectSeq(cs, LAMBDA c : c.cluster_label = l)
SemCentro_todos(cs, l) == cs
SemCentro(cs, l) == SelectSeq(cs, LAMBDA c : c.cluster_label # l)

\* ================================================================== Init
\* centres: labels 0..k-1 in list order, at distinct latitudes; PDVs: one
\* to NumPDV of them, listed by latitude, each unlabelled or labelled with
\* any of the centres
CentrosPossiveis ==
    { cs \in UNION {[1..k -> [cluster_label : Labels, lat : Lats, lon : {0}]]
                      : k \in 1..Cardinality(Lats)} :
        /\ \A k \in 1..Len(cs) : cs[k].cluster_label = k - 1
        /\ \A k \in 1..(Len(cs) - 1) : cs[k].lat < cs[k + 1].lat }

\* the balancer is called directly: there is no run and no pipeline around it
ChamadaDireta == [etapa |-> "direto"]

Init ==
    /\ centros \in CentrosPossiveis
    /\ pdvs \in UNION {[1..n ->
                          [lat : Lats, lon : {0},
                           cluster_label : {None} \cup labels_ativos(centros)]]
                        : n \in 1..NumPDV}
    /\ \A k \in 1..(Len(pdvs) - 1) : pdvs[k].lat <= pdvs[k + 1].lat
    /\ max_pdv \in 1..MaxCap
    /\ min_pdv \in 1..max_pdv
    /\ tempo_max_min \in TemposMax
    /\ v_kmh \in Velocidades
    /\ max_iter \in 1..MaxIter
    /\ pc = "iter"
    /\ it = 1
    /\ counts = [l \in Labels |-> 0]
    /\ fila = <<>>
    /\ lbl = None
    /\ excedente = 0
    /\ vizinhos = <<>>
    /\ pdvs_cluster = <<>>
    /\ i = 1
    /\ alteracoes = 0
    /\ mov_excesso = 0
    /\ mov_deficit = 0
    /\ centros_ativos = <<>>
    /\ centros_final = <<>>
    /\ erro = ""
    /\ pdvs_in = pdvs
    /\ centros_in = centros
    /\ reparos = 0
    /\ pdvs_rep = pdvs
    /\ ult = [passo |-> "init"]
    /\ avisos = {}
    /\ descartados = {}
    /\ chamada = [n |-> 1]
    /\ pipe = ChamadaDireta

\* ============================================================ main loop
\* the parameters, the caller's input and the caller's own state never change
\* inside the balancer
Fixos == <<min_pdv, max_pdv, tempo_max_min, v_kmh, max_iter, pdvs_in, centros_in,
           chamada, pipe>>

\* placeholder for centro_ref = None
SemRef == [cluster_label |-> None, lat |-> 0, lon |-> 0]

\* the record kept of one label move chosen by a candidate search
Mov(fase, k, para, cnt) ==
    [passo |-> "mov", fase |-> fase, pdv |-> k,
     de |-> pdvs[k].cluster_label, para |-> para,
     cont_corrente |-> cnt[para], cont_real |-> NumComLabel(pdvs, para)]

\* for it in range(1, max_iter + 1): counts, labels_centros
\* "for it in range(1, max_iter + 1)": the range has no value left for it
range_esgotado_mut(n, m) == n > m + 1
range_esgotado(n, m) == n > m

IterInicio ==
    /\ pc = "iter"
    /\ IF range_esgotado(it, max_iter)
       THEN /\ pc' = "limpeza"
            /\ ult' = [passo |-> "esgotou"]
            /\ UNCHANGED <<counts, i, reparos>>
       ELSE /\ pc' = "reparo"
            /\ counts' = contagens(pdvs)
            /\ i' = 1
            /\ reparos' = 0
            /\ ult' = [passo |-> "iter"]
    /\ UNCHANGED <<pdvs, centros, it, fila, lbl, excedente, vizinhos,
                   pdvs_cluster, alteracoes, mov_excesso, mov_deficit,
                   centros_ativos, centros_final, erro, pdvs_rep,
                   avisos, descartados, Fixos>>

\* the positions from i on whose label is not the label of an active centre
Orfaos == {k \in i..Len(pdvs) : pdvs[k].cluster_label \notin labels_ativos(centros)}

\* one pass of the body of "for p in pdvs" that finds an orphan
ReparoPdv ==
    /\ pc = "reparo"
    /\ Orfaos # {}
    /\ LET k == CHOOSE x \in Orfaos : \A y \in Orfaos : x <= y
           cand == candidatos_para_pdv(pdvs[k], centros, counts, max_pdv,
                                       tempo_max_min, v_kmh, FALSE, SemRef)
       IN IF cand = <<>>
          THEN /\ pc' = "erro"
               /\ erro' = "Sem candidatos viaveis para realocar PDV apos remocao de centro."
               /\ ult' = [passo |-> "erro", pdv |-> k]
               /\ UNCHANGED <<pdvs, counts, i, reparos>>
          ELSE LET novo == cand[1].cluster_label
               IN /\ pdvs' = [pdvs EXCEPT ![k].cluster_label = novo]
                  /\ counts' = [counts EXCEPT ![novo] = @ + 1]
                  /\ i' = k + 1
                  /\ reparos' = reparos + 1
                  /\ ult' = Mov("reparo", k, novo, counts)
                  /\ UNCHANGED <<pc, erro>>
    /\ UNCHANGED <<centros, it, fila, lbl, excedente, vizinhos, pdvs_cluster,
                   alteracoes, mov_excesso, mov_deficit, centros_ativos,
                   centros_final, pdvs_rep, avisos, descartados, Fixos>>

\* the repair loop finds no further orphan
ReparoFim ==
    /\ pc = "reparo"
    /\ Orfaos = {}
    /\ pc' = "excesso"
    /\ pdvs_rep' = pdvs
    /\ ult' = [passo |-> "reparo_fim"]
    /\ UNCHANGED <<pdvs, centros, it, counts, fila, lbl, excedente, vizinhos,
                   pdvs_cluster, i, alteracoes, mov_excesso, mov_deficit,
                   centros_ativos, centros_final, erro, reparos,
                   avisos, descartados, Fixos>>

\* the (lbl, qtd) items of the count dict of ps, in insertion order
ItensContagens_primeiro(ps) ==
    LET ch == ChavesContagens(ps)
    IN [k \in 1..(IF ch = <<>> THEN 0 ELSE 1) |-> <<ch[k], NumComLabel(ps, ch[k])>>]
ItensContagens(ps) ==
    LET ch == ChavesContagens(ps)
    IN [k \in 1..Len(ch) |-> <<ch[k], NumComLabel(ps, ch[k])>>]

\* ============================================== _resolver_excesso (> max_pdv)
\* counts, acima; "if not acima: return 0"
ExcessoInicio ==
    /\ pc = "excesso"
    /\ LET acima == OrdenaPorQtd(
                       SelectSeq(ItensContagens(pdvs), LAMBDA x : x[2] > max_pdv),
                       TRUE)
       IN /\ counts' = contagens(pdvs)
          /\ IF acima = <<>>
             THEN /\ mov_excesso' = 0
                  /\ pc' = "deficit"
                  /\ UNCHANGED <<fila, alteracoes>>
             ELSE /\ fila' = acima
                  /\ alteracoes' = 0
                  /\ pc' = "excesso_loop"
                  /\ UNCHANGED mov_excesso
    /\ ult' = [passo |-> "excesso"]
    /\ UNCHANGED <<pdvs, centros, it, lbl, excedente, vizinhos, pdvs_cluster, i,
                   mov_deficit, centros_ativos, centros_final, erro, reparos,
                   pdvs_rep, avisos, descartados, Fixos>>

\* one pass of "for lbl, qtd in acima" up to the while loop
ExcessoCentro ==
    /\ pc = "excesso_loop"
    /\ fila # <<>>
    /\ LET l == Head(fila)[1]
           qtd == Head(fila)[2]
           ref == centros_por_label(centros, l)
           viz == vizinhanca_centros(ref[1], centros, max_merge_km)
       IN /\ fila' = Tail(fila)
          /\ IF qtd - max_pdv <= 0 \/ ref = <<>> \/ viz = <<>>
             THEN \* continue
                  /\ ult' = [passo |-> "excesso_sem_vizinhos", lbl |-> l]
                  /\ avisos' = IF qtd - max_pdv > 0 /\ ref # <<>>
                                THEN avisos \cup {<<"sem_vizinhos", l>>}
                                ELSE avisos
                  /\ UNCHANGED <<pc, lbl, excedente, vizinhos, pdvs_cluster, i>>
             ELSE /\ lbl' = l
                  /\ excedente' = qtd - max_pdv
                  /\ vizinhos' = viz
                  /\ pdvs_cluster' = OrdenaBorda(pdvs_do_label(pdvs, l), pdvs, ref[1])
                  /\ i' = 1
                  /\ pc' = "excesso_pdv"
                  /\ ult' = [passo |-> "excesso_centro", lbl |-> l]
                  /\ UNCHANGED avisos
    /\ UNCHANGED <<pdvs, centros, it, counts, alteracoes, mov_excesso,
                   mov_deficit, centros_ativos, centros_final, erro, reparos,
                   pdvs_rep, descartados, Fixos>>

\* "while excedente > 0 and i < len(pdvs_cluster)", i counted from 1
enquanto_excesso_mut(e, k, n) == k <= n
enquanto_excesso(e, k, n) == e > 0 /\ k <= n

\* one pass of "while excedente > 0 and i < len(pdvs_cluster)"
ExcessoPdv ==
    /\ pc = "excesso_pdv"
    /\ enquanto_excesso(excedente, i, Len(pdvs_cluster))
    /\ LET k == pdvs_cluster[i]
           cand == candidatos_para_pdv(pdvs[k], vizinhos, counts, max_pdv,
                                       tempo_max_min, v_kmh, FALSE, SemRef)
       IN /\ i' = i + 1
          /\ IF cand = <<>>
             THEN /\ ult' = [passo |-> "excesso_pula", pdv |-> k]
                  /\ UNCHANGED <<pdvs, counts, excedente, alteracoes>>
             ELSE LET old == pdvs[k].cluster_label
                      new == cand[1].cluster_label
                  IN /\ pdvs' = [pdvs EXCEPT ![k].cluster_label = new]
                     /\ counts' = [counts EXCEPT ![old] = @ - 1, ![new] = @ + 1]
                     /\ excedente' = excedente - 1
                     /\ alteracoes' = alteracoes + 1
                     /\ ult' = Mov("excesso", k, new, counts)
    /\ UNCHANGED <<centros, it, pc, fila, lbl, vizinhos, pdvs_cluster,
                   mov_excesso, mov_deficit, centros_ativos, centros_final,
                   erro, reparos, pdvs_rep, avisos, descartados, Fixos>>

\* the while loop of one overloaded centre ends
ExcessoCentroFim ==
    /\ pc = "excesso_pdv"
    /\ ~enquanto_excesso(excedente, i, Len(pdvs_cluster))
    /\ pc' = "excesso_loop"
    /\ ult' = [passo |-> "excesso_centro_fim", lbl |-> lbl]
    /\ avisos' = IF excedente > 0
                  THEN avisos \cup {<<"excedente_mantido", lbl>>}
                  ELSE avisos
    /\ UNCHANGED <<pdvs, centros, it, counts, fila, lbl, excedente, vizinhos,
                   pdvs_cluster, i, alteracoes, mov_excesso, mov_deficit,
                   centros_ativos, centros_final, erro, reparos, pdvs_rep,
                   descartados, Fixos>>

\* "return alteracoes"
ExcessoFim ==
    /\ pc = "excesso_loop"
    /\ fila = <<>>
    /\ mov_excesso' = alteracoes
    /\ pc' = "deficit"
    /\ ult' = [passo |-> "excesso_fim"]
    /\ UNCHANGED <<pdvs, centros, it, counts, fila, lbl, excedente, vizinhos,
                   pdvs_cluster, i, alteracoes, mov_deficit, centros_ativos,
                   centros_final, erro, reparos, pdvs_rep, avisos, descartados, Fixos>>

\* ===================== _resolver_deficit_descartando_centros (< min_pdv)
\* centros_ativos = [dict(c) for c in centros]
copia_centros_mut(cs) == centros_in
copia_centros(cs) == cs

\* counts, abaixo; "if not abaixo: return 0, centros"
DeficitInicio ==
    /\ pc = "deficit"
    /\ LET abaixo == OrdenaPorQtd(
                        SelectSeq(ItensContagens(pdvs), LAMBDA x : x[2] < min_pdv),
                        FALSE)
       IN /\ counts' = contagens(pdvs)
          /\ IF abaixo = <<>>
             THEN /\ mov_deficit' = 0
                  /\ pc' = "check"
                  /\ UNCHANGED <<fila, alteracoes, centros_ativos>>
             ELSE /\ fila' = abaixo
                  /\ alteracoes' = 0
                  /\ centros_ativos' = copia_centros(centros)
                  /\ pc' = "deficit_loop"
                  /\ UNCHANGED mov_deficit
    /\ ult' = [passo |-> "deficit"]
    /\ UNCHANGED <<pdvs, centros, it, lbl, excedente, vizinhos, pdvs_cluster, i,
                   mov_excesso, centros_final, erro, reparos, pdvs_rep,
                   avisos, descartados, Fixos>>

\* counts_atual = _contagens(pdvs), taken anew for each centre of abaixo
counts_atual_mut(ps) == counts
counts_atual(ps) == contagens(ps)

\* one pass of "for lbl, qtd in abaixo" up to the reallocation loop
DeficitCentro ==
    /\ pc = "deficit_loop"
    /\ fila # <<>>
    /\ LET l == Head(fila)[1]
           ref == centros_por_label(centros, l)
           doLabel == pdvs_do_label(pdvs, l)
           outros_centros == SemCentro(centros_ativos, l)
       IN /\ fila' = Tail(fila)
          /\ IF l \notin labels_ativos(centros_ativos) \/ ref = <<>>
             THEN \* continue
                  /\ ult' = [passo |-> "deficit_ja_removido", lbl |-> l]
                  /\ UNCHANGED <<pc, lbl, vizinhos, pdvs_cluster, i, counts,
                                 centros_ativos, erro>>
             ELSE IF doLabel = <<>>
             THEN \* remove the empty centre, continue
                  /\ centros_ativos' = outros_centros
                  /\ ult' = [passo |-> "deficit_vazio", lbl |-> l]
                  /\ UNCHANGED <<pc, lbl, vizinhos, pdvs_cluster, i, counts, erro>>
             ELSE IF outros_centros = <<>>
             THEN /\ pc' = "erro"
                  /\ erro' = "Nao e possivel descartar o ultimo centro existente."
                  /\ ult' = [passo |-> "erro", lbl |-> l]
                  /\ UNCHANGED <<lbl, vizinhos, pdvs_cluster, i, counts,
                                 centros_ativos>>
             ELSE /\ lbl' = l
                  /\ vizinhos' = outros_centros
                  /\ pdvs_cluster' = OrdenaBorda(doLabel, pdvs, ref[1])
                  /\ counts' = counts_atual(pdvs)
                  /\ i' = 1
                  /\ pc' = "deficit_pdv"
                  /\ ult' = [passo |-> "deficit_centro", lbl |-> l]
                  /\ UNCHANGED <<centros_ativos, erro>>
    /\ UNCHANGED <<pdvs, centros, it, excedente, alteracoes, mov_excesso,
                   mov_deficit, centros_final, reparos, pdvs_rep,
                   avisos, descartados, Fixos>>

\* one pass of "for p in pdvs_cluster": radius search, fallback, move or break
DeficitPdv ==
    /\ pc = "deficit_pdv"
    /\ i <= Len(pdvs_cluster)
    /\ LET k == pdvs_cluster[i]
           ref == centros_por_label(centros, lbl)[1]
           noRaio == candidatos_para_pdv(pdvs[k], vizinhos, counts, max_pdv,
                                         tempo_max_min, v_kmh, TRUE, ref)
           cand == IF noRaio # <<>> THEN noRaio
                   ELSE candidatos_para_pdv(pdvs[k], vizinhos, counts, max_pdv,
                                            tempo_max_min, v_kmh, FALSE, SemRef)
       IN IF cand = <<>>
          THEN \* ok_realocar = False; break
               /\ pc' = "deficit_rollback"
               /\ ult' = [passo |-> "deficit_falha", pdv |-> k]
               /\ UNCHANGED <<pdvs, counts, i, alteracoes>>
          ELSE LET new == cand[1].cluster_label
               IN /\ pdvs' = [pdvs EXCEPT ![k].cluster_label = new]
                  /\ counts' = [counts EXCEPT ![new] = @ + 1]
                  /\ alteracoes' = alteracoes + 1
                  /\ i' = i + 1
                  /\ ult' = Mov("deficit", k, new, counts)
                  /\ UNCHANGED pc
    /\ UNCHANGED <<centros, it, fila, lbl, excedente, vizinhos, pdvs_cluster,
                   mov_excesso, mov_deficit, centros_ativos, centros_final,
                   erro, reparos, pdvs_rep, avisos, descartados, Fixos>>

\* the PDVs of pdvs_cluster that no longer carry lbl
Realocados_nenhum == {}
Realocados == {k \in 1..Len(pdvs_cluster) : pdvs[pdvs_cluster[k]].cluster_label # lbl}

\* "if not ok_realocar": every moved PDV back to lbl, the moves uncounted
Reverte_mut(ps, cluster, l) == ps
Reverte(ps, cluster, l) ==
    [k \in 1..Len(ps) |->
        IF (\E j \in 1..Len(cluster) : cluster[j] = k) /\ ps[k].cluster_label # l
        THEN [ps[k] EXCEPT !.cluster_label = l] ELSE ps[k]]

DeficitRollback ==
    /\ pc = "deficit_rollback"
    /\ pdvs' = Reverte(pdvs, pdvs_cluster, lbl)
    /\ alteracoes' = alteracoes - Cardinality(Realocados)
    /\ avisos' = avisos \cup {<<"rollback", lbl>>}
    /\ pc' = "deficit_loop"
    /\ ult' = [passo |-> "rollback", lbl |-> lbl, desfeitos |-> Cardinality(Realocados)]
    /\ UNCHANGED <<centros, it, counts, fila, lbl, excedente, vizinhos,
                   pdvs_cluster, i, mov_excesso, mov_deficit, centros_ativos,
                   centros_final, erro, reparos, pdvs_rep, descartados, Fixos>>

\* every PDV found a home: the centre leaves centros_ativos
DeficitDescarta ==
    /\ pc = "deficit_pdv"
    /\ i > Len(pdvs_cluster)
    /\ centros_ativos' = SemCentro(centros_ativos, lbl)
    /\ pc' = "deficit_loop"
    /\ ult' = [passo |-> "descartado", lbl |-> lbl]
    /\ descartados' = descartados \cup
                        {[lbl |-> lbl, it |-> it,
                          pdvs |-> {pdvs_cluster[k] : k \in 1..Len(pdvs_cluster)}]}
    /\ UNCHANGED <<pdvs, centros, it, counts, fila, lbl, excedente, vizinhos,
                   pdvs_cluster, i, alteracoes, mov_excesso, mov_deficit,
                   centros_final, erro, reparos, pdvs_rep, avisos, Fixos>>

\* "return alteracoes, centros_ativos"
DeficitFim ==
    /\ pc = "deficit_loop"
    /\ fila = <<>>
    /\ mov_deficit' = alteracoes
    /\ centros' = centros_ativos
    /\ pc' = "check"
    /\ ult' = [passo |-> "deficit_fim"]
    /\ UNCHANGED <<pdvs, it, counts, fila, lbl, excedente, vizinhos,
                   pdvs_cluster, i, alteracoes, mov_excesso, centros_ativos,
                   centros_final, erro, reparos, pdvs_rep, avisos, descartados, Fixos>>

\* ===================================== end of the iteration, final cleanup
\* mov_total = int(mov_excesso + mov_deficit)
mov_total_nulo(me, md) == 0
mov_total_mut(me, md) == me
mov_total(me, md) == me + md

\* "if mov_total == 0: break", else the next value of it
Verifica ==
    /\ pc = "check"
    /\ IF mov_total(mov_excesso, mov_deficit) = 0
       THEN /\ pc' = "limpeza"
            /\ ult' = [passo |-> "convergiu"]
            /\ UNCHANGED it
       ELSE /\ pc' = "iter"
            /\ it' = it + 1
            /\ ult' = [passo |-> "continua"]
    /\ UNCHANGED <<pdvs, centros, counts, fila, lbl, excedente, vizinhos,
                   pdvs_cluster, i, alteracoes, mov_excesso, mov_deficit,
                   centros_ativos, centros_final, erro, reparos, pdvs_rep,
                   avisos, descartados, Fixos>>

\* centros_final: the centres that still have a PDV
CentrosComPdv_todos(cs, ps) == cs
CentrosComPdv_mut(cs, ps) == SelectSeq(cs, LAMBDA c : NumComLabel(ps, c.cluster_label) > 1)
CentrosComPdv_marcado(cs, ps) ==
    LET com == SelectSeq(cs, LAMBDA c : NumComLabel(ps, c.cluster_label) > 0)
    IN [k \in 1..Len(com) |->
           [cluster_label |-> com[k].cluster_label, lat |-> com[k].lat,
            lon |-> com[k].lon, dist_km_from_ref |-> 0]]
CentrosComPdv(cs, ps) == SelectSeq(cs, LAMBDA c : NumComLabel(ps, c.cluster_label) > 0)

Limpeza ==
    /\ pc = "limpeza"
    /\ centros_final' = CentrosComPdv(centros, pdvs)
    /\ pc' = "done"
    /\ ult' = [passo |-> "retorno"]
    /\ UNCHANGED <<pdvs, centros, it, counts, fila, lbl, excedente, vizinhos,
                   pdvs_cluster, i, alteracoes, mov_excesso, mov_deficit,
                   centros_ativos, erro, reparos, pdvs_rep, avisos, descartados, Fixos>>

Next ==
    \/ IterInicio
    \/ ReparoPdv
    \/ ReparoFim
    \/ ExcessoInicio
    \/ ExcessoCentro
    \/ ExcessoPdv
    \/ ExcessoCentroFim
    \/ ExcessoFim
    \/ DeficitInicio
    \/ DeficitCentro
    \/ DeficitPdv
    \/ DeficitRollback
    \/ DeficitDescarta
    \/ DeficitFim
    \/ Verifica
    \/ Limpeza

Spec == Init /\ [][Next]_vars

\* =============================================================== claims
Range(sq) == {sq[k] : k \in 1..Len(sq)}

\* the steps of one elimination attempt of the deficit step
EmDeficit == pc \in {"deficit_loop", "deficit_pdv", "deficit_rollback"}

\* the centre record of label l in the list cs
CentroDe(cs, l) == CHOOSE c \in Range(cs) : c.cluster_label = l

\* ---------------------------------------------------------------- C1
\* C1: when balancear_clusters_pdv returns, the label of every returned PDV
\* is the label of a centre of the returned list.
C1_IntegridadeNoRetorno ==
    pc = "done" =>
        \A k \in 1..Len(pdvs) : pdvs[k].cluster_label \in labels_ativos(centros_final)

\* a normal return after a centre was discarded and a PDV was relabelled
C1_Witness ==
    /\ pc = "done"
    /\ Len(centros_final) < Len(centros_in)
    /\ \E k \in 1..Len(pdvs) :
          /\ pdvs_in[k].cluster_label # None
          /\ pdvs[k].cluster_label # pdvs_in[k].cluster_label

\* ---------------------------------------------------------------- C2
\* C2: the elimination of one deficit centre is all-or-nothing.  When the
\* attempt ends with the centre discarded, no PDV of the centre carries its
\* label any more, each carries the label of another active centre and the
\* centre is out of the active list; when it ends with the rollback, every
\* PDV of the centre carries the centre's label again and the centre is
\* still active.
C2_TudoOuNada ==
    /\ (pc = "deficit_loop" /\ ult.passo = "descartado") =>
          /\ lbl \notin labels_ativos(centros_ativos)
          /\ \A j \in 1..Len(pdvs_cluster) :
                /\ pdvs[pdvs_cluster[j]].cluster_label # lbl
                /\ pdvs[pdvs_cluster[j]].cluster_label \in labels_ativos(centros_ativos)
          /\ NumComLabel(pdvs, lbl) = 0
    /\ (pc = "deficit_loop" /\ ult.passo = "rollback") =>
          /\ lbl \in labels_ativos(centros_ativos)
          /\ \A j \in 1..Len(pdvs_cluster) : pdvs[pdvs_cluster[j]].cluster_label = lbl

\* a rollback that had to undo at least one reassignment
C2_Witness ==
    /\ pc = "deficit_loop"
    /\ ult.passo = "rollback"
    /\ ult.desfeitos > 0

\* ---------------------------------------------------------------- C3
\* C3: no step writes the coordinates of a centre: every centre record the
\* balancer holds or returns has the latitude and longitude of the input
\* centre of the same label.
CoordsDeEntrada(cs) ==
    \A c \in Range(cs) :
        \E c0 \in Range(centros_in) :
            c0.cluster_label = c.cluster_label /\ c0.lat = c.lat /\ c0.lon = c.lon

C3_CentrosFixos ==
    /\ CoordsDeEntrada(centros)
    /\ CoordsDeEntrada(centros_ativos)
    /\ CoordsDeEntrada(vizinhos)
    /\ CoordsDeEntrada(centros_final)

\* a return after excess moves towards neighbour centres and a discarded centre
C3_Witness ==
    /\ pc = "done"
    /\ centros_final # <<>>
    /\ Len(centros_final) < Len(centros_in)
    /\ it > 1
    /\ \E k \in 1..Len(vizinhos) : vizinhos[k].lat # 0

\* ---------------------------------------------------------------- C4
\* C4: the active centres only shrink: no step adds a centre to the active
\* list, the list of the deficit step is part of the active list, and the
\* returned centres are part of the input centres and no more numerous.
C4_Passo ==
    /\ Range(centros') \subseteq Range(centros)
    /\ Len(centros') <= Len(centros)
    /\ EmDeficit' =>
          /\ Range(centros_ativos') \subseteq Range(centros)
          /\ EmDeficit => Range(centros_ativos') \subseteq Range(centros_ativos)
    /\ pc' = "done" =>
          /\ Range(centros_final') \subseteq Range(centros_in)
          /\ Len(centros_final') <= Len(centros_in)

C4_SoEncolhe == [][C4_Passo]_vars

\* a second iteration starts its deficit step with fewer centres than the input
C4_Witness ==
    /\ pc = "deficit_loop"
    /\ it = 2
    /\ Len(centros) < Len(centros_in)
    /\ Len(centros_ativos) = Len(centros)

\* ---------------------------------------------------------------- C5
\* C5: every move chosen by a candidate search (repair, excess, deficit)
\* goes to a centre whose running count, which is its real count, was below
\* max_pdv before the move; and no step takes a centre from at most max_pdv
\* PDVs to more than max_pdv.
C5_Passo ==
    \A l \in Labels :
        NumComLabel(pdvs, l) <= max_pdv => NumComLabel(pdvs', l) <= max_pdv

C5_Capacidade ==
    /\ [](ult.passo = "mov" =>
            /\ ult.cont_corrente < max_pdv
            /\ ult.cont_real < max_pdv)
    /\ [][C5_Passo]_vars

\* a deficit move that fills its target up to max_pdv
C5_Witness ==
    /\ ult.passo = "mov"
    /\ ult.fase = "deficit"
    /\ ult.cont_real = max_pdv - 1
    /\ NumComLabel(pdvs, ult.para) = max_pdv

\* ---------------------------------------------------------------- C6
\* C6 (I3): in the returned result every PDV whose label differs from its
\* input label is within tempo_max_min of the centre it is assigned to.
C6_TempoDosMovidos ==
    pc = "done" =>
        \A k \in 1..Len(pdvs) :
            pdvs[k].cluster_label # pdvs_in[k].cluster_label =>
                tempo_pdv_centro_min(pdvs[k],
                    CentroDe(centros_final, pdvs[k].cluster_label), v_kmh)
                    <= tempo_max_min

\* a return with a moved PDV, and a PDV left on its input centre beyond the
\* time ceiling
C6_Witness ==
    /\ pc = "done"
    /\ \E k \in 1..Len(pdvs) :
          /\ pdvs_in[k].cluster_label # None
          /\ pdvs[k].cluster_label # pdvs_in[k].cluster_label
    /\ \E k \in 1..Len(pdvs) :
          /\ pdvs[k].cluster_label = pdvs_in[k].cluster_label
          /\ tempo_pdv_centro_min(pdvs[k],
                 CentroDe(centros_final, pdvs[k].cluster_label), v_kmh)
                 > tempo_max_min

\* ---------------------------------------------------------------- C7
\* C7: the active centre list is never empty, neither the list of the main
\* loop nor the working list of the deficit step, and the returned list is
\* never empty.
C7_NuncaSemCentro ==
    /\ centros # <<>>
    /\ EmDeficit => centros_ativos # <<>>
    /\ pc = "done" => centros_final # <<>>

\* a return with a single centre left of several, the others discarded by
\* the deficit step
C7_Witness ==
    /\ pc = "done"
    /\ Len(centros_in) > 1
    /\ Len(centros) = 1
    /\ Len(centros_final) = 1

\* ---------------------------------------------------------------- C8
\* C8: when the deficit step reaches a centre that has a PDV and is the only
\* active centre left, the call raises the ValueError of the last centre: no
\* label changes and no result is returned.
C8_Passo ==
    (/\ pc = "deficit_loop"
     /\ fila # <<>>
     /\ Len(centros_ativos) = 1
     /\ centros_ativos[1].cluster_label = Head(fila)[1]
     /\ NumComLabel(pdvs, Head(fila)[1]) >= 1)
    => /\ pc' = "erro"
       /\ erro' = "Nao e possivel descartar o ultimo centro existente."
       /\ pdvs' = pdvs
       /\ centros_final' = <<>>

C8_UltimoCentro ==
    /\ [][C8_Passo]_vars
    /\ [](pc = "erro" => centros_final = <<>>)
    /\ [][pc = "erro" => pc' = "erro"]_vars

\* the error raised for the last centre, after another centre was discarded
C8_Witness ==
    /\ pc = "erro"
    /\ erro = "Nao e possivel descartar o ultimo centro existente."
    /\ Len(centros_ativos) = 1
    /\ Len(centros_in) > 1

\* ---------------------------------------------------------------- C9
\* C9: the repair gives a PDV whose label is no active centre's the label
\* of an active centre that has room under max_pdv and is within
\* tempo_max_min of it, of least travel time among all such centres, with no
\* radius restriction; when no active centre is such, the call raises the
\* ValueError of the repair.  No returned PDV is dropped or left orphaned.
ViaveisPara(k) ==
    {c \in Range(centros) :
        /\ NumComLabel(pdvs, c.cluster_label) < max_pdv
        /\ tempo_pdv_centro_min(pdvs[k], c, v_kmh) <= tempo_max_min}

C9_Passo ==
    (pc = "reparo" /\ Orfaos # {}) =>
        LET k == CHOOSE x \in Orfaos : \A y \in Orfaos : x <= y
        IN IF ViaveisPara(k) = {}
           THEN /\ pc' = "erro"
                /\ erro' = "Sem candidatos viaveis para realocar PDV apos remocao de centro."
           ELSE /\ pc' = "reparo"
                /\ \E c \in ViaveisPara(k) :
                      /\ pdvs'[k].cluster_label = c.cluster_label
                      /\ \A c2 \in ViaveisPara(k) :
                            tempo_pdv_centro_min(pdvs[k], c, v_kmh)
                              <= tempo_pdv_centro_min(pdvs[k], c2, v_kmh)

C9_Reparo ==
    /\ [][C9_Passo]_vars
    /\ [](pc = "done" =>
            /\ Len(pdvs) = Len(pdvs_in)
            /\ \A k \in 1..Len(pdvs) :
                  pdvs[k].cluster_label \in labels_ativos(centros))

\* a repair move to a centre that is not the first of the list, farther than
\* max_merge_km from the first
C9_Witness ==
    /\ ult.passo = "mov"
    /\ ult.fase = "reparo"
    /\ haversine(<<CentroDe(centros, ult.para).lat, 0>>,
                 <<centros[1].lat, 0>>) > max_merge_km

\* --------------------------------------------------------------- C10
\* the loop is left: by the break, or by the end of range(1, max_iter + 1)
SaiDoLaco == pc' = "limpeza" \/ it' > max_iter

\* C10 as stated: the loop is left exactly when the iteration changed no
\* label in any of repair, excess and deficit, or max_iter is reached.
C10_Original_Passo ==
    pc = "check" =>
        (SaiDoLaco <=> (reparos + mov_excesso + mov_deficit = 0 \/ it = max_iter))

C10_Original == [][C10_Original_Passo]_vars

\* C10 amended: the loop is left exactly when the excess and the deficit
\* step of the iteration left every label as the repair had left it (the
\* changes of the repair are not counted), or max_iter is reached; otherwise
\* the next iteration starts.
C10_Passo ==
    pc = "check" =>
        /\ SaiDoLaco <=> (pdvs = pdvs_rep \/ it = max_iter)
        /\ ~SaiDoLaco => (pc' = "iter" /\ it' = it + 1)

C10_Parada == [][C10_Passo]_vars

\* the break after an iteration in which only the repair changed labels,
\* with iterations left
C10_Witness ==
    /\ pc = "limpeza"
    /\ ult.passo = "convergiu"
    /\ reparos > 0
    /\ it < max_iter

\* ------------------------------------------------ a second call of the balancer
\* the caller passes the PDVs and the centres a call returned to a new call,
\* with the same parameters
Rechama ==
    /\ pc = "done"
    /\ chamada.n = 1
    /\ pipe = ChamadaDireta
    /\ chamada' = [n |-> 2, convergiu |-> (it <= max_iter)]
    /\ centros' = centros_final
    /\ centros_in' = centros_final
    /\ pdvs_in' = pdvs
    /\ pdvs_rep' = pdvs
    /\ pc' = "iter"
    /\ it' = 1
    /\ counts' = [l \in Labels |-> 0]
    /\ fila' = <<>>
    /\ lbl' = None
    /\ excedente' = 0
    /\ vizinhos' = <<>>
    /\ pdvs_cluster' = <<>>
    /\ i' = 1
    /\ alteracoes' = 0
    /\ mov_excesso' = 0
    /\ mov_deficit' = 0
    /\ centros_ativos' = <<>>
    /\ centros_final' = <<>>
    /\ reparos' = 0
    /\ ult' = [passo |-> "init"]
    /\ avisos' = {}
    /\ descartados' = {}
    /\ UNCHANGED <<pdvs, erro, min_pdv, max_pdv, tempo_max_min, v_kmh, max_iter, pipe>>

NextDuas == Next \/ Rechama

SpecDuas == Init /\ [][NextDuas]_vars

\* ------------------------------------------------ named scenarios
\* the state in which a direct call with the given arguments starts
Partida(cs, ps, mn, mx, mi) ==
    /\ centros = cs
    /\ pdvs = ps
    /\ min_pdv = mn
    /\ max_pdv = mx
    /\ max_iter = mi
    /\ tempo_max_min \in TemposMax
    /\ v_kmh \in Velocidades
    /\ pc = "iter"
    /\ it = 1
    /\ counts = [l \in Labels |-> 0]
    /\ fila = <<>>
    /\ lbl = None
    /\ excedente = 0
    /\ vizinhos = <<>>
    /\ pdvs_cluster = <<>>
    /\ i = 1
    /\ alteracoes = 0
    /\ mov_excesso = 0
    /\ mov_deficit = 0
    /\ centros_ativos = <<>>
    /\ centros_final = <<>>
    /\ erro = ""
    /\ pdvs_in = ps
    /\ centros_in = cs
    /\ reparos = 0
    /\ pdvs_rep = ps
    /\ ult = [passo |-> "init"]
    /\ avisos = {}
    /\ descartados = {}
    /\ chamada = [n |-> 1]
    /\ pipe = ChamadaDireta

\* "basic excess split": two centres one step (10 km, the neighbour radius)
\* apart, 12 PDVs at centre 0 and assigned to it, 2 at centre 1
CentrosExcesso == <<[cluster_label |-> 0, lat |-> 0, lon |-> 0],
                    [cluster_label |-> 1, lat |-> 1, lon |-> 0]>>

PdvsExcesso ==
    [k \in 1..14 |-> IF k <= 12
                     THEN [lat |-> 0, lon |-> 0, cluster_label |-> 0]
                     ELSE [lat |-> 1, lon |-> 0, cluster_label |-> 1]]

\* two overloaded centres, the more loaded one second in the order of the PDV
\* list: two PDVs at centre 0, three at centre 1, none at centre 2, max_pdv = 1
PdvsDoisExcessos ==
    [k \in 1..5 |-> IF k <= 2 THEN [lat |-> 0, lon |-> 0, cluster_label |-> 0]
                    ELSE [lat |-> 1, lon |-> 0, cluster_label |-> 1]]

\* "deficit elimination": three centres, min_pdv = 3, max_pdv = 4; centre 1 has
\* one PDV, centres 0 and 2 have three PDVs each, all at their centre
CentrosDeficit == <<[cluster_label |-> 0, lat |-> 0, lon |-> 0],
                    [cluster_label |-> 1, lat |-> 1, lon |-> 0],
                    [cluster_label |-> 2, lat |-> 2, lon |-> 0]>>

PdvsDeficit ==
    [k \in 1..7 |-> IF k <= 3 THEN [lat |-> 0, lon |-> 0, cluster_label |-> 0]
                    ELSE IF k = 4 THEN [lat |-> 1, lon |-> 0, cluster_label |-> 1]
                    ELSE [lat |-> 2, lon |-> 0, cluster_label |-> 2]]

\* "infeasible deficit": centre 0 has a PDV that is 20 km from centre 1, and
\* centre 1 has a PDV that centre 0 can take
CentrosInviavel == <<[cluster_label |-> 0, lat |-> 1, lon |-> 0],
                     [cluster_label |-> 1, lat |-> 2, lon |-> 0]>>

PdvsInviavel == <<[lat |-> 0, lon |-> 0, cluster_label |-> 0],
                  [lat |-> 2, lon |-> 0, cluster_label |-> 1]>>

\* two PDVs for one free place: centre 1 has two PDVs, centre 0 has three, and
\* there is no third centre
PdvsDisputa ==
    [k \in 1..5 |-> IF k <= 3 THEN [lat |-> 0, lon |-> 0, cluster_label |-> 0]
                    ELSE [lat |-> 1, lon |-> 0, cluster_label |-> 1]]

\* two failed eliminations in one pass: centres 0 and 2 have two PDVs each,
\* all at their centre, and centre 1 between them has three, so that each
\* deficit centre can hand over one PDV only, and only to centre 1
PdvsDuasTentativas ==
    [k \in 1..7 |-> IF k <= 2 THEN [lat |-> 0, lon |-> 0, cluster_label |-> 0]
                    ELSE IF k <= 5 THEN [lat |-> 1, lon |-> 0, cluster_label |-> 1]
                    ELSE [lat |-> 2, lon |-> 0, cluster_label |-> 2]]

\* two deficit centres, the emptier one later in the PDV list: centre 0 has a
\* PDV at its place and one 10 km away, centre 2 has one PDV, centre 1 between
\* them has three; min_pdv = 3, max_pdv = 6
PdvsDoisDeficits ==
    <<[lat |-> 0, lon |-> 0, cluster_label |-> 0],
      [lat |-> 1, lon |-> 0, cluster_label |-> 0],
      [lat |-> 2, lon |-> 0, cluster_label |-> 2],
      [lat |-> 1, lon |-> 0, cluster_label |-> 1],
      [lat |-> 1, lon |-> 0, cluster_label |-> 1],
      [lat |-> 1, lon |-> 0, cluster_label |-> 1]>>

InitExcesso ==
    \E mi \in 1..MaxIter :
        \/ Partida(CentrosExcesso, PdvsExcesso, 1, 5, mi)
        \/ Partida(CentrosDeficit, PdvsDoisExcessos, 1, 1, mi)

InitDeficit ==
    \E mi \in 1..MaxIter :
        \/ Partida(CentrosDeficit, PdvsDeficit, 3, 4, mi)
        \/ Partida(CentrosExcesso, PdvsDisputa, 3, 4, mi)
        \/ Partida(CentrosInviavel, PdvsInviavel, 3, 4, mi)
        \/ Partida(CentrosDeficit, PdvsDuasTentativas, 3, 4, mi)
        \/ Partida(CentrosDeficit, PdvsDoisDeficits, 3, 6, mi)

\* the calls of Spec and the calls of the named scenarios
InitCenarios == Init \/ InitExcesso \/ InitDeficit

SpecCenarios == InitCenarios /\ [][Next]_vars

\* ------------------------------------------------ calls with no speed
\* the speeds at which _tempo_min gives its sentinel
VelocidadesNulas == {0, -60}

\* a direct call with valid parameters and v_kmh <= 0
InitParado ==
    /\ centros \in CentrosPossiveis
    /\ pdvs \in UNION {[1..n ->
                          [lat : Lats, lon : {0},
                           cluster_label : {None} \cup labels_ativos(centros)]]
                        : n \in 1..NumPDV}
    /\ \A k \in 1..(Len(pdvs) - 1) : pdvs[k].lat <= pdvs[k + 1].lat
    /\ max_pdv \in 1..MaxCap
    /\ min_pdv \in 1..max_pdv
    /\ tempo_max_min \in TemposMax
    /\ v_kmh \in VelocidadesNulas
    /\ max_iter \in 1..MaxIter
    /\ pc = "iter"
    /\ it = 1
    /\ counts = [l \in Labels |-> 0]
    /\ fila = <<>>
    /\ lbl = None
    /\ excedente = 0
    /\ vizinhos = <<>>
    /\ pdvs_cluster = <<>>
    /\ i = 1
    /\ alteracoes = 0
    /\ mov_excesso = 0
    /\ mov_deficit = 0
    /\ centros_ativos = <<>>
    /\ centros_final = <<>>
    /\ erro = ""
    /\ pdvs_in = pdvs
    /\ centros_in = centros
    /\ reparos = 0
    /\ pdvs_rep = pdvs
    /\ ult = [passo |-> "init"]
    /\ avisos = {}
    /\ descartados = {}
    /\ chamada = [n |-> 1]
    /\ pipe = ChamadaDireta

\* the calls of Spec and the calls with no speed
SpecParado == (Init \/ InitParado) /\ [][Next]_vars

\* ------------------------------------------------ the parameter checks
\* the values a count parameter or the time ceiling may be given
ParametrosPossiveis == -1..MaxCap
TemposPossiveis == {-10, 0} \cup TemposMax

\* the three checks at the head of balancear_clusters_pdv, in their order:
\* the message of the first that fails, "" when none does
parametros_invalidos_semtempo(cs, mn, mx, tm) ==
    IF cs = <<>> THEN "centros vazio no balanceador."
    ELSE IF mn <= 0 \/ mx <= 0 \/ mn > mx THEN "min_pdv/max_pdv invalidos."
    ELSE ""
parametros_invalidos(cs, mn, mx, tm) ==
    IF cs = <<>> THEN "centros vazio no balanceador."
    ELSE IF mn <= 0 \/ mx <= 0 \/ mn > mx THEN "min_pdv/max_pdv invalidos."
    ELSE IF tm <= 0 THEN "tempo_max_min invalido."
    ELSE ""

\* a direct call with any parameters, at its first line
InitValida ==
    /\ centros \in CentrosPossiveis \cup {<<>>}
    /\ pdvs \in UNION {[1..n ->
                          [lat : Lats, lon : {0},
                           cluster_label : {None} \cup labels_ativos(centros)]]
                        : n \in 1..NumPDV}
    /\ \A k \in 1..(Len(pdvs) - 1) : pdvs[k].lat <= pdvs[k + 1].lat
    /\ max_pdv \in ParametrosPossiveis
    /\ min_pdv \in ParametrosPossiveis
    /\ tempo_max_min \in TemposPossiveis
    /\ v_kmh \in Velocidades
    /\ max_iter \in 1..MaxIter
    /\ pc = "valida"
    /\ it = 1
    /\ counts = [l \in Labels |-> 0]
    /\ fila = <<>>
    /\ lbl = None
    /\ excedente = 0
    /\ vizinhos = <<>>
    /\ pdvs_cluster = <<>>
    /\ i = 1
    /\ alteracoes = 0
    /\ mov_excesso = 0
    /\ mov_deficit = 0
    /\ centros_ativos = <<>>
    /\ centros_final = <<>>
    /\ erro = ""
    /\ pdvs_in = pdvs
    /\ centros_in = centros
    /\ reparos = 0
    /\ pdvs_rep = pdvs
    /\ ult = [passo |-> "init"]
    /\ avisos = {}
    /\ descartados = {}
    /\ chamada = [n |-> 1]
    /\ pipe = ChamadaDireta

\* "if not centros: raise", "if min_pdv <= 0 or ...: raise",
\* "if tempo_max_min <= 0: raise"; otherwise on to the iteration loop
Valida ==
    /\ pc = "valida"
    /\ LET msg == parametros_invalidos(centros, min_pdv, max_pdv, tempo_max_min)
       IN IF msg # ""
          THEN /\ pc' = "erro"
               /\ erro' = msg
          ELSE /\ pc' = "iter"
               /\ erro' = ""
    /\ UNCHANGED <<pdvs, centros, it, counts, fila, lbl, excedente, vizinhos,
                   pdvs_cluster, i, alteracoes, mov_excesso, mov_deficit,
                   centros_ativos, centros_final, reparos, pdvs_rep, ult,
                   avisos, descartados, Fixos>>

NextValida ==
    \/ Next
    \/ Valida

\* the calls of Spec and the calls that start at the parameter checks
SpecValida == (Init \/ InitValida) /\ [][NextValida]_vars

\* ------------------------------------------------ the run pipeline: execute
\* _atribuir_pdvs_a_centros: min(centros, key = distance) is the first centre
\* of the list at the least distance
melhor_centro_ultimo(p, cs) ==
    LET d(j) == dist_pdv_centro_km(p, cs[j])
    IN cs[CHOOSE j \in 1..Len(cs) :
              \A m \in 1..Len(cs) : d(j) < d(m) \/ (d(j) = d(m) /\ j >= m)]
melhor_centro(p, cs) ==
    LET d(j) == dist_pdv_centro_km(p, cs[j])
    IN cs[CHOOSE j \in 1..Len(cs) :
              \A m \in 1..Len(cs) : d(j) < d(m) \/ (d(j) = d(m) /\ j <= m)]

atribuir_pdvs_a_centros(ps, cs) ==
    [k \in 1..Len(ps) |->
        [ps[k] EXCEPT !.cluster_label = melhor_centro(ps[k], cs).cluster_label]]

\* sorted(S) for a set of integers
RECURSIVE Crescente(_)
Crescente(S) ==
    IF S = {} THEN <<>>
    ELSE LET m == CHOOSE x \in S : \A y \in S : x <= y
         IN <<m>> \o Crescente(S \ {m})

\* labels_orig = sorted({int(c["cluster_label"]) for c in centros})
labels_orig_mut(cs) ==
    LET ord == Crescente(labels_ativos(cs))
    IN [k \in 1..Len(ord) |-> ord[Len(ord) + 1 - k]]
labels_orig(cs) == Crescente(labels_ativos(cs))

\* mapa = {old: new for new, old in enumerate(labels_orig)}
mapa_labels(cs) ==
    LET ord == labels_orig(cs)
    IN [old \in Range(ord) |-> (CHOOSE k \in 1..Len(ord) : ord[k] = old) - 1]

\* the first PDV whose label is not a key of mapa (0 when there is none)
PrimeiroSemMapa(ps, m) ==
    IF \A k \in 1..Len(ps) : ps[k].cluster_label \in DOMAIN m THEN 0
    ELSE CHOOSE k \in 1..Len(ps) :
            /\ ps[k].cluster_label \notin DOMAIN m
            /\ \A j \in 1..(k - 1) : ps[j].cluster_label \in DOMAIN m

\* "for p in pdvs: p.cluster_label = mapa[int(p.cluster_label)]", up to the
\* PDV at which the lookup raises
normaliza_pdvs(ps, m) ==
    LET f == PrimeiroSemMapa(ps, m)
    IN [k \in 1..Len(ps) |->
           IF f = 0 \/ k < f
           THEN [ps[k] EXCEPT !.cluster_label = m[ps[k].cluster_label]]
           ELSE ps[k]]

normaliza_centros(cs, m) ==
    [k \in 1..Len(cs) |-> [cs[k] EXCEPT !.cluster_label = m[cs[k].cluster_label]]]

\* the largest element of a non-empty set of numbers
Maior(S) == CHOOSE x \in S : \A y \in S : y <= x

\* _gerar_setores: one Setor for each centre that has PDVs, in list order
gerar_setores_todos(ps, cs) ==
    [k \in 1..Len(cs) |->
        [cluster_label |-> cs[k].cluster_label,
         centro_lat |-> cs[k].lat,
         centro_lon |-> cs[k].lon,
         n_pdvs |-> NumComLabel(ps, cs[k].cluster_label),
         dist_max_km |-> 0,
         tempo_max_min |-> 0]]
gerar_setores(ps, cs) ==
    LET comPdv == SelectSeq(cs, LAMBDA c : NumComLabel(ps, c.cluster_label) > 0)
        dists(c) == {dist_pdv_centro_km(ps[k], c) :
                        k \in {j \in 1..Len(ps) : ps[j].cluster_label = c.cluster_label}}
    IN [k \in 1..Len(comPdv) |->
           [cluster_label |-> comPdv[k].cluster_label,
            centro_lat |-> comPdv[k].lat,
            centro_lon |-> comPdv[k].lon,
            n_pdvs |-> NumComLabel(ps, comPdv[k].cluster_label),
            dist_max_km |-> Maior(dists(comPdv[k])),
            tempo_max_min |-> tempo_min(Maior(dists(comPdv[k])), v_kmh)]]

\* the state of execute before the run is created
PipeInicial ==
    [etapa |-> "exec", run |-> "nenhum", excecao |-> "", setores |-> <<>>,
     antes |-> <<>>, k_final |-> None, retorno |-> ""]

\* execute has loaded a non-empty PDV list (no PDV has a label yet) and a
\* non-empty centre list, and is about to create the run
InitExec ==
    /\ centros \in CentrosPossiveis
    /\ pdvs \in UNION {[1..n -> [lat : Lats, lon : {0}, cluster_label : {None}]]
                        : n \in 1..NumPDV}
    /\ \A k \in 1..(Len(pdvs) - 1) : pdvs[k].lat <= pdvs[k + 1].lat
    /\ max_pdv \in 1..MaxCap
    /\ min_pdv \in 1..max_pdv
    /\ tempo_max_min \in TemposMax
    /\ v_kmh \in Velocidades
    /\ max_iter \in 1..MaxIter
    /\ pc = "criar_run"
    /\ it = 1
    /\ counts = [l \in Labels |-> 0]
    /\ fila = <<>>
    /\ lbl = None
    /\ excedente = 0
    /\ vizinhos = <<>>
    /\ pdvs_cluster = <<>>
    /\ i = 1
    /\ alteracoes = 0
    /\ mov_excesso = 0
    /\ mov_deficit = 0
    /\ centros_ativos = <<>>
    /\ centros_final = <<>>
    /\ erro = ""
    /\ pdvs_in = pdvs
    /\ centros_in = centros
    /\ reparos = 0
    /\ pdvs_rep = pdvs
    /\ ult = [passo |-> "init"]
    /\ avisos = {}
    /\ descartados = {}
    /\ chamada = [n |-> 1]
    /\ pipe = PipeInicial

\* what no step of execute outside the balancer changes
LocaisDoBalanceador ==
    <<centros, it, counts, fila, lbl, excedente, vizinhos, pdvs_cluster, i,
      alteracoes, mov_excesso, mov_deficit, centros_ativos, erro, reparos,
      avisos, descartados, chamada, min_pdv, max_pdv, tempo_max_min, v_kmh,
      max_iter, centros_in>>

\* run_id = criar_run(...): the collaborator creates the run or raises
CriarRun ==
    /\ pc = "criar_run"
    /\ \E falha \in BOOLEAN :
          IF falha
          THEN /\ pc' = "levantou"
               /\ pipe' = [pipe EXCEPT !.excecao = "criar_run"]
          ELSE /\ pc' = "salvar_centros"
               /\ pipe' = [pipe EXCEPT !.run = "criado"]
    /\ ult' = [passo |-> "criar_run"]
    /\ UNCHANGED <<pdvs, pdvs_in, pdvs_rep, centros_final, LocaisDoBalanceador>>

\* centro_id_map = salvar_centros(...), before the try block: a raise here
\* leaves execute at once
SalvarCentros ==
    /\ pc = "salvar_centros"
    /\ \E falha \in BOOLEAN :
          IF falha
          THEN /\ pc' = "levantou"
               /\ pipe' = [pipe EXCEPT !.excecao = "salvar_centros"]
          ELSE /\ pc' = "atribuir"
               /\ UNCHANGED pipe
    /\ ult' = [passo |-> "salvar_centros"]
    /\ UNCHANGED <<pdvs, pdvs_in, pdvs_rep, centros_final, LocaisDoBalanceador>>

\* self._atribuir_pdvs_a_centros(pdvs, centros), then the call of the balancer
Atribui ==
    /\ pc = "atribuir"
    /\ IF centros = <<>> /\ pdvs # <<>>
       THEN \* min() of an empty list raises, for the first PDV
            /\ pc' = "except"
            /\ pipe' = [pipe EXCEPT !.excecao = "atribuir"]
            /\ ult' = [passo |-> "atribuir_levanta"]
            /\ UNCHANGED <<pdvs, pdvs_in, pdvs_rep>>
       ELSE /\ pdvs' = atribuir_pdvs_a_centros(pdvs, centros)
            /\ pdvs_in' = pdvs'
            /\ pdvs_rep' = pdvs'
            /\ pc' = "iter"
            /\ ult' = [passo |-> "init"]
            /\ UNCHANGED pipe
    /\ UNCHANGED <<centros_final, LocaisDoBalanceador>>

\* the balancer raised inside the try block
BalanceLevanta ==
    /\ pc = "erro"
    /\ pipe.etapa = "exec"
    /\ pc' = "except"
    /\ pipe' = [pipe EXCEPT !.excecao = "balancear"]
    /\ ult' = [passo |-> "balance_levanta"]
    /\ UNCHANGED <<pdvs, pdvs_in, pdvs_rep, centros_final, LocaisDoBalanceador>>

\* labels_orig, mapa and the two rewriting loops
Normaliza ==
    /\ pc = "done"
    /\ pipe.etapa = "exec"
    /\ LET m == mapa_labels(centros_final)
       IN /\ centros_final' = normaliza_centros(centros_final, m)
          /\ pdvs' = normaliza_pdvs(pdvs, m)
          /\ IF PrimeiroSemMapa(pdvs, m) = 0
             THEN /\ pc' = "gerar_setores"
                  /\ pipe' = [pipe EXCEPT !.antes = <<pdvs, centros_final>>]
             ELSE /\ pc' = "except"
                  /\ pipe' = [pipe EXCEPT !.antes = <<pdvs, centros_final>>,
                                          !.excecao = "normalizar"]
    /\ ult' = [passo |-> "normaliza"]
    /\ UNCHANGED <<pdvs_in, pdvs_rep, LocaisDoBalanceador>>

\* setores = self._gerar_setores(pdvs, centros)
GeraSetores ==
    /\ pc = "gerar_setores"
    /\ IF v_kmh = 0
       THEN \* calcular_metricas_cluster divides by vel_kmh
            /\ pc' = "except"
            /\ pipe' = [pipe EXCEPT !.excecao = "gerar_setores"]
       ELSE /\ pc' = "salvar_setores"
            /\ pipe' = [pipe EXCEPT !.setores = gerar_setores(pdvs, centros_final)]
    /\ ult' = [passo |-> "gerar_setores"]
    /\ UNCHANGED <<pdvs, pdvs_in, pdvs_rep, centros_final, LocaisDoBalanceador>>

\* mapping = salvar_setores(...) and "p.cluster_id = mapping[p.cluster_label]"
SalvarSetores ==
    /\ pc = "salvar_setores"
    /\ \E falha \in BOOLEAN :
          IF falha \/ \E k \in 1..Len(pdvs) :
                         \A j \in 1..Len(pipe.setores) :
                             pipe.setores[j].cluster_label # pdvs[k].cluster_label
          THEN /\ pc' = "except"
               /\ pipe' = [pipe EXCEPT !.excecao = "salvar_setores"]
          ELSE /\ pc' = "salvar_mapeamento"
               /\ UNCHANGED pipe
    /\ ult' = [passo |-> "salvar_setores"]
    /\ UNCHANGED <<pdvs, pdvs_in, pdvs_rep, centros_final, LocaisDoBalanceador>>

\* salvar_mapeamento_pdvs(...)
SalvarMapeamento ==
    /\ pc = "salvar_mapeamento"
    /\ \E falha \in BOOLEAN :
          IF falha
          THEN /\ pc' = "except"
               /\ pipe' = [pipe EXCEPT !.excecao = "salvar_mapeamento_pdvs"]
          ELSE /\ pc' = "finalizar"
               /\ UNCHANGED pipe
    /\ ult' = [passo |-> "salvar_mapeamento"]
    /\ UNCHANGED <<pdvs, pdvs_in, pdvs_rep, centros_final, LocaisDoBalanceador>>

\* finalizar_run(run_id, status="done", k_final=len(setores))
FinalizarDone ==
    /\ pc = "finalizar"
    /\ \E falha \in BOOLEAN :
          IF falha
          THEN /\ pc' = "except"
               /\ pipe' = [pipe EXCEPT !.excecao = "finalizar_run"]
          ELSE /\ pc' = "historico"
               /\ pipe' = [pipe EXCEPT !.run = "done", !.k_final = Len(pipe.setores)]
    /\ ult' = [passo |-> "finalizar_done"]
    /\ UNCHANGED <<pdvs, pdvs_in, pdvs_rep, centros_final, LocaisDoBalanceador>>

\* atualizar_historico_cluster_job(...), still inside the try block, and the
\* return of the result dict
AtualizarHistorico ==
    /\ pc = "historico"
    /\ \E falha \in BOOLEAN :
          IF falha
          THEN /\ pc' = "except"
               /\ pipe' = [pipe EXCEPT !.excecao = "atualizar_historico"]
          ELSE /\ pc' = "retornou"
               /\ pipe' = [pipe EXCEPT !.retorno = "done"]
    /\ ult' = [passo |-> "historico"]
    /\ UNCHANGED <<pdvs, pdvs_in, pdvs_rep, centros_final, LocaisDoBalanceador>>

\* "except Exception": finalizar_run(run_id, status="error", k_final=0, ...),
\* which can raise itself, and "raise"
Except ==
    /\ pc = "except"
    /\ \E falha \in BOOLEAN :
          IF falha
          THEN pipe' = [pipe EXCEPT !.excecao = "finalizar_run_error"]
          ELSE pipe' = [pipe EXCEPT !.run = "error", !.k_final = 0]
    /\ pc' = "levantou"
    /\ ult' = [passo |-> "except"]
    /\ UNCHANGED <<pdvs, pdvs_in, pdvs_rep, centros_final, LocaisDoBalanceador>>

NextExec ==
    \/ Next
    \/ CriarRun
    \/ SalvarCentros
    \/ Atribui
    \/ BalanceLevanta
    \/ Normaliza
    \/ GeraSetores
    \/ SalvarSetores
    \/ SalvarMapeamento
    \/ FinalizarDone
    \/ AtualizarHistorico
    \/ Except

\* the direct calls of Spec and the runs of execute
SpecExec == (Init \/ InitExec) /\ [][NextExec]_vars

\* ------------------------------------------------ execute from its first line
\* "if not pdvs", "if not centros": the loaded list is empty
lista_vazia_mut(xs) == FALSE
lista_vazia(xs) == xs = <<>>

\* execute is about to load the PDVs and the centres; either list may come
\* back empty
InitCarga ==
    /\ centros \in CentrosPossiveis \cup {<<>>}
    /\ pdvs \in UNION {[1..n -> [lat : Lats, lon : {0}, cluster_label : {None}]]
                        : n \in 0..NumPDV}
    /\ \A k \in 1..(Len(pdvs) - 1) : pdvs[k].lat <= pdvs[k + 1].lat
    /\ max_pdv \in 1..MaxCap
    /\ min_pdv \in 1..max_pdv
    /\ tempo_max_min \in TemposMax
    /\ v_kmh \in Velocidades
    /\ max_iter \in 1..MaxIter
    /\ pc = "carregar"
    /\ it = 1
    /\ counts = [l \in Labels |-> 0]
    /\ fila = <<>>
    /\ lbl = None
    /\ excedente = 0
    /\ vizinhos = <<>>
    /\ pdvs_cluster = <<>>
    /\ i = 1
    /\ alteracoes = 0
    /\ mov_excesso = 0
    /\ mov_deficit = 0
    /\ centros_ativos = <<>>
    /\ centros_final = <<>>
    /\ erro = ""
    /\ pdvs_in = pdvs
    /\ centros_in = centros
    /\ reparos = 0
    /\ pdvs_rep = pdvs
    /\ ult = [passo |-> "init"]
    /\ avisos = {}
    /\ descartados = {}
    /\ chamada = [n |-> 1]
    /\ pipe = PipeInicial

\* carregar_pdvs and _carregar_centros with their two guards
Carrega ==
    /\ pc = "carregar"
    /\ IF lista_vazia(pdvs)
       THEN /\ pc' = "levantou"
            /\ pipe' = [pipe EXCEPT !.excecao = "Nenhum PDV encontrado."]
       ELSE IF lista_vazia(centros)
       THEN /\ pc' = "levantou"
            /\ pipe' = [pipe EXCEPT !.excecao = "Nenhum centro valido apos geocodificacao."]
       ELSE /\ pc' = "criar_run"
            /\ UNCHANGED pipe
    /\ ult' = [passo |-> "carregar"]
    /\ UNCHANGED <<pdvs, pdvs_in, pdvs_rep, centros_final, LocaisDoBalanceador>>

NextCarga == NextExec \/ Carrega

\* the direct calls of Spec and execute from its first line
SpecCarga == (Init \/ InitCarga) /\ [][NextCarga]_vars

\* ------------------------------------------------ _gerar_setores on its own
\* _gerar_setores is called with a centre list in which a centre may have no
\* PDV; every PDV carries the label of a centre of the list
InitSetores ==
    /\ centros \in CentrosPossiveis
    /\ pdvs \in UNION {[1..n ->
                          [lat : Lats, lon : {0},
                           cluster_label : labels_ativos(centros)]]
                        : n \in 1..NumPDV}
    /\ \A k \in 1..(Len(pdvs) - 1) : pdvs[k].lat <= pdvs[k + 1].lat
    /\ max_pdv \in 1..MaxCap
    /\ min_pdv \in 1..max_pdv
    /\ tempo_max_min \in TemposMax
    /\ v_kmh \in Velocidades
    /\ max_iter \in 1..MaxIter
    /\ pc = "gerar_setores"
    /\ it = 1
    /\ counts = [l \in Labels |-> 0]
    /\ fila = <<>>
    /\ lbl = None
    /\ excedente = 0
    /\ vizinhos = <<>>
    /\ pdvs_cluster = <<>>
    /\ i = 1
    /\ alteracoes = 0
    /\ mov_excesso = 0
    /\ mov_deficit = 0
    /\ centros_ativos = <<>>
    /\ centros_final = centros
    /\ erro = ""
    /\ pdvs_in = pdvs
    /\ centros_in = centros
    /\ reparos = 0
    /\ pdvs_rep = pdvs
    /\ ult = [passo |-> "init"]
    /\ avisos = {}
    /\ descartados = {}
    /\ chamada = [n |-> 1]
    /\ pipe = [PipeInicial EXCEPT !.run = "criado",
                                  !.antes = <<pdvs, centros>>]

\* the runs of execute and the calls of _gerar_setores on its own
SpecSetores == (Init \/ InitExec \/ InitSetores) /\ [][NextExec]_vars

\* the loop body runs only for it in 1..max_iter
NoCorpoDoLaco ==
    pc \in {"reparo", "excesso", "excesso_loop", "excesso_pdv", "deficit",
            "deficit_loop", "deficit_pdv", "deficit_rollback", "check"}

\* some centre of cs is above max_pdv or below min_pdv
Desbalanceado(cs, ps) ==
    \E c \in Range(cs) : \/ NumComLabel(ps, c.cluster_label) > max_pdv
                         \/ NumComLabel(ps, c.cluster_label) < min_pdv

C11_Iteracoes ==
    /\ it <= max_iter + 1
    /\ NoCorpoDoLaco => it <= max_iter

C11_Passo ==
    /\ (pc = "iter" /\ it > max_iter) => (pc' = "limpeza" /\ erro' = "")
    /\ pc = "limpeza" => (pc' = "done" /\ erro' = "" /\ pdvs' = pdvs)

\* an upper bound of the steps one centre of a queue takes, plus one
PesoCentro == Len(pdvs) + 5

\* an upper bound of the steps of the excess step or of the deficit step
PesoFase == (Cardinality(Labels) + 1) * PesoCentro + 1

\* the steps left in the current iteration, counted from above
RestoDaIteracao ==
    LET d == 2 + PesoFase
        e == d + PesoFase + 1
    IN CASE pc = "check"            -> 1
         [] pc = "deficit_loop"     -> 2 + Len(fila) * PesoCentro
         [] pc = "deficit_rollback" -> 2 + Len(fila) * PesoCentro + 1
         [] pc = "deficit_pdv"      -> 2 + Len(fila) * PesoCentro + 2 + (Len(pdvs) + 1 - i)
         [] pc = "deficit"          -> d
         [] pc = "excesso_loop"     -> d + 1 + Len(fila) * PesoCentro
         [] pc = "excesso_pdv"      -> d + 1 + Len(fila) * PesoCentro + 2 + (Len(pdvs) + 1 - i)
         [] pc = "excesso"          -> e
         [] pc = "reparo"           -> e + 1 + (Len(pdvs) + 1 - i)
         [] pc = "iter"             -> e + Len(pdvs) + 3
         [] OTHER                   -> 0

PesoIteracao == 2 * PesoFase + Len(pdvs) + 8

\* a natural number that every step of the call makes smaller
Medida ==
    CASE pc \in {"done", "erro"} -> 0
      [] pc = "limpeza"          -> 1
      [] OTHER                   -> 1 + (max_iter + 1 - it) * PesoIteracao + RestoDaIteracao

\* C11: every call ends: each step makes a natural-number measure smaller, and
\* the measure is zero exactly at the return and at the raise; the loop body
\* runs for at most max_iter iterations; when the iterations are used up,
\* whatever imbalance is left, the call goes to the final cleanup and returns
\* without an error.
C11_Termina ==
    [][/\ C11_Iteracoes /\ C11_Iteracoes'
       /\ Medida' < Medida /\ Medida' >= 0
       /\ (Medida' = 0 <=> pc' \in {"done", "erro"})
       /\ C11_Passo]_vars

\* the iterations were used up and the call returned with a centre out of range
C11_Witness ==
    /\ pc = "done"
    /\ it > max_iter
    /\ erro = ""
    /\ Desbalanceado(centros_final, pdvs)

CenarioExcesso ==
    /\ pdvs_in = PdvsExcesso /\ centros_in = CentrosExcesso
    /\ min_pdv = 1 /\ max_pdv = 5

\* the PDVs whose label differs from the one the caller gave them
Sairam(l) == {k \in 1..Len(pdvs) : pdvs_in[k].cluster_label = l /\ pdvs[k].cluster_label # l}

\* C13 as stated: in the scenario centre 0 ends with at most 5 PDVs, those
\* that left it are on centre 1, and the two counts sum to 14.
C13_Original ==
    (CenarioExcesso /\ pc = "done") =>
        /\ NumComLabel(pdvs, 0) <= 5
        /\ \A k \in Sairam(0) : pdvs[k].cluster_label = 1
        /\ NumComLabel(pdvs, 0) + NumComLabel(pdvs, 1) = 14

\* C13: in the scenario centre 1 is filled up to max_pdv = 5 with 3 PDVs that
\* left centre 0, centre 0 keeps the other 9 and the call logs that it kept
\* excess; the PDVs that left centre 0 are on centre 1, both centres are
\* returned and the two counts sum to 14.
C13_DivisaoDoExcesso ==
    (CenarioExcesso /\ pc = "done") =>
        /\ NumComLabel(pdvs, 1) = 5
        /\ NumComLabel(pdvs, 0) = 9
        /\ Cardinality(Sairam(0)) = 3
        /\ \A k \in Sairam(0) : pdvs[k].cluster_label = 1
        /\ Sairam(1) = {}
        /\ centros_final = CentrosExcesso
        /\ <<"excedente_mantido", 0>> \in avisos

\* the scenario ran to its return
C13_Witness ==
    /\ CenarioExcesso /\ pc = "done"
    /\ Sairam(0) # {}

\* the centres of cs, other than the one labelled l, that have a free place
\* for PDV k of ps and are within tempo_max_min of it
PodemReceber(ps, cs, k, l) ==
    {c \in Range(cs) : /\ c.cluster_label # l
                       /\ NumComLabel(ps, c.cluster_label) < max_pdv
                       /\ tempo_pdv_centro_min(ps[k], c, v_kmh) <= tempo_max_min}

\* PDV k is on a centre of cs other than l, within tempo_max_min of it
BemColocado(cs, k, l) ==
    /\ pdvs[k].cluster_label # l
    /\ \E c \in Range(cs) : /\ c.cluster_label = pdvs[k].cluster_label
                            /\ tempo_pdv_centro_min(pdvs[k], c, v_kmh) <= tempo_max_min

\* C14 as stated, read on the arguments of the call: a centre that has PDVs,
\* fewer than min_pdv, each with a free and reachable centre among the others,
\* is not returned and its PDVs end on returned centres within tempo_max_min.
C14_Original ==
    pc = "done" =>
        \A c \in Range(centros_in) :
            LET l == c.cluster_label
                meus == {k \in 1..Len(pdvs_in) : pdvs_in[k].cluster_label = l}
            IN (/\ meus # {}
                /\ Cardinality(meus) < min_pdv
                /\ \A k \in meus : PodemReceber(pdvs_in, centros_in, k, l) # {})
               => /\ l \notin labels_ativos(centros_final)
                  /\ \A k \in meus : BemColocado(centros_final, k, l)

C14_Passo ==
    /\ (pc = "deficit_pdv" /\ i <= Len(pdvs_cluster)) =>
          LET k == pdvs_cluster[i]
              livres == PodemReceber(pdvs, centros_ativos, k, lbl)
          IN IF livres # {}
             THEN /\ pc' = "deficit_pdv"
                  /\ pdvs'[k].cluster_label \in {c.cluster_label : c \in livres}
             ELSE pc' = "deficit_rollback"
    /\ (pc = "deficit_pdv" /\ i > Len(pdvs_cluster)) =>
          /\ lbl \notin labels_ativos(centros_ativos')
          /\ [lbl |-> lbl, it |-> it, pdvs |-> Range(pdvs_cluster)] \in descartados'
          /\ \A k \in Range(pdvs_cluster) : BemColocado(centros_ativos', k, lbl)
    /\ pc' = "done" =>
          \A d \in descartados' :
              /\ d.lbl \notin labels_ativos(centros_final')
              /\ \A k \in d.pdvs :
                    /\ pdvs'[k].cluster_label # d.lbl
                    /\ \E c \in Range(centros_final') :
                          /\ c.cluster_label = pdvs'[k].cluster_label
                          /\ tempo_pdv_centro_min(pdvs'[k], c, v_kmh) <= tempo_max_min

\* C14: a centre the deficit step works on, each of whose PDVs, taken
\* farthest first and counting the PDVs the attempt has already moved, has a
\* free and reachable centre among the other active centres, leaves the active
\* set with every PDV on such a centre; a PDV in turn without one sends the
\* attempt to the rollback; at the return a dissolved centre is not in the
\* list and each of its PDVs is on a returned centre within tempo_max_min.
C14_Descarte == [][C14_Passo]_vars

\* the scenario with one PDV on centre 1 and min_pdv = 3 returned without it
C14_Witness ==
    /\ pc = "done"
    /\ pdvs_in = PdvsDeficit /\ centros_in = CentrosDeficit
    /\ \E d \in descartados : d.lbl = 1
    /\ 1 \notin labels_ativos(centros_final)

\* PDV k carries the label of a centre of the call and no other centre of the
\* call is within tempo_max_min of it
Preso(k) ==
    /\ pdvs_in[k].cluster_label \in labels_ativos(centros_in)
    /\ \A c \in Range(centros_in) :
          c.cluster_label # pdvs_in[k].cluster_label
              => tempo_pdv_centro_min(pdvs_in[k], c, v_kmh) > tempo_max_min

\* the PDVs the caller passed with label l
DoCentroNaEntrada(l) == {k \in 1..Len(pdvs_in) : pdvs_in[k].cluster_label = l}

\* the centre labelled l is below min_pdv in the arguments of the call and
\* holds a PDV that no other centre can take within tempo_max_min
DeficitInviavel(l) ==
    /\ DoCentroNaEntrada(l) # {}
    /\ Cardinality(DoCentroNaEntrada(l)) < min_pdv
    /\ Len(centros_in) >= 2
    /\ \E k \in DoCentroNaEntrada(l) : Preso(k)

\* C15 as stated, read on the arguments of a call in which every PDV has the
\* label of a centre: the call returns, the centre is in the result and each
\* of its PDVs carries its label.
C15_Original ==
    (/\ pc \in {"done", "erro"}
     /\ \A k \in 1..Len(pdvs_in) : pdvs_in[k].cluster_label \in labels_ativos(centros_in))
    => \A l \in labels_ativos(centros_in) :
          DeficitInviavel(l) =>
              /\ pc = "done"
              /\ l \in labels_ativos(centros_final)
              /\ \A k \in DoCentroNaEntrada(l) : pdvs[k].cluster_label = l

RECURSIVE TotalRealocado(_)
TotalRealocado(ds) ==
    IF ds = {} THEN 0
    ELSE LET d == CHOOSE x \in ds : TRUE
         IN Cardinality(d.pdvs) + TotalRealocado(ds \ {d})

C15_Passo ==
    \* a PDV in turn that no other active centre reaches in time stops the attempt
    /\ (/\ pc = "deficit_pdv" /\ i <= Len(pdvs_cluster)
        /\ \A c \in Range(centros_ativos) :
              c.cluster_label # lbl =>
                  tempo_pdv_centro_min(pdvs[pdvs_cluster[i]], c, v_kmh) > tempo_max_min)
       => (pc' = "deficit_rollback" /\ pdvs' = pdvs)
    \* the rollback keeps the centre, gives every PDV its label back, is logged
    /\ pc = "deficit_rollback" =>
          /\ pc' = "deficit_loop"
          /\ lbl \in labels_ativos(centros_ativos')
          /\ \A k \in Range(pdvs_cluster) : pdvs'[k].cluster_label = lbl
          /\ \A k \in 1..Len(pdvs) : k \notin Range(pdvs_cluster) => pdvs'[k] = pdvs[k]
          /\ <<"rollback", lbl>> \in avisos'
    \* what the deficit step reports to the convergence check is the PDVs of
    \* the centres it dissolved in this iteration: nothing for a rolled-back one
    /\ (pc = "deficit_loop" /\ pc' = "check") =>
          mov_deficit' = TotalRealocado({d \in descartados : d.it = it})
    \* a trapped PDV never moves and its centre stays active
    /\ \A k \in 1..Len(pdvs) :
          Preso(k) => /\ pdvs'[k].cluster_label = pdvs_in[k].cluster_label
                      /\ pdvs_in[k].cluster_label \in labels_ativos(centros')
    \* when the call returns, a centre that was below min_pdv with a trapped
    \* PDV is returned with every PDV it had
    /\ pc' = "done" =>
          \A l \in labels_ativos(centros_in) :
              DeficitInviavel(l) =>
                  /\ l \in labels_ativos(centros_final')
                  /\ \A k \in DoCentroNaEntrada(l) : pdvs'[k].cluster_label = l

\* C15: an elimination attempt that meets a PDV no other active centre
\* reaches within tempo_max_min is rolled back: the centre stays active, each
\* of its PDVs carries its label again, a warning is logged and the deficit
\* step reports no move for it; a centre that enters the call below min_pdv
\* with such a PDV keeps every PDV throughout, and is in the result whenever
\* the call returns.
C15_Rollback == [][C15_Passo]_vars

\* a call returned after rolling back the elimination of a centre with a
\* trapped PDV, and another centre was returned too
C15_Witness ==
    /\ pc = "done"
    /\ Len(centros_final) >= 2
    /\ \E l \in labels_ativos(centros_in) :
          /\ DeficitInviavel(l)
          /\ <<"rollback", l>> \in avisos

\* every centre of cs has between min_pdv and max_pdv PDVs of ps
TodosNaFaixa(cs, ps) ==
    \A c \in Range(cs) : /\ NumComLabel(ps, c.cluster_label) >= min_pdv
                         /\ NumComLabel(ps, c.cluster_label) <= max_pdv

\* every centre of cs is within the neighbour radius of every other
TodosVizinhos(cs) ==
    \A a, b \in Range(cs) :
        haversine(<<a.lat, a.lon>>, <<b.lat, b.lon>>) <= max_merge_km

\* a non-fatal residual condition occurred in the call: an overloaded centre
\* kept excess, an elimination was rolled back, or the iterations were used up
CondicaoResidual ==
    \/ \E l \in Labels : <<"excedente_mantido", l>> \in avisos
    \/ \E l \in Labels : <<"sem_vizinhos", l>> \in avisos
    \/ \E l \in Labels : <<"rollback", l>> \in avisos
    \/ it > max_iter

\* C16: when the call returns, either every returned centre has between
\* min_pdv and max_pdv PDVs, or an overloaded centre kept excess, or an
\* elimination was rolled back, or the iterations were used up; checked for
\* every instance, those with all centres within the radius of each other
\* included.
C16_Convergencia ==
    pc = "done" => (TodosNaFaixa(centros_final, pdvs) \/ CondicaoResidual)

\* centres all within the radius, PDVs were moved, no residual condition, and
\* the call returned with every centre in range
C16_Witness ==
    /\ pc = "done"
    /\ Len(centros_in) >= 2 /\ TodosVizinhos(centros_in)
    /\ ~CondicaoResidual
    /\ pdvs # pdvs_in
    /\ TodosNaFaixa(centros_final, pdvs)

\* C17: the returned list is the centres of the working list at loop exit
\* that have a PDV, in the same order: every returned centre has at least one
\* PDV, and every centre active at loop exit with a PDV is returned.
C17_LimpezaFinal ==
    pc = "done" =>
        /\ \A c \in Range(centros_final) : NumComLabel(pdvs, c.cluster_label) >= 1
        /\ \A c \in Range(centros) :
              NumComLabel(pdvs, c.cluster_label) >= 1 => c \in Range(centros_final)
        /\ Range(centros_final) \subseteq Range(centros)
        /\ Len(centros_final) = Cardinality(Range(centros_final))

\* the cleanup dropped a centre without PDVs and kept one that has exactly one
C17_Witness ==
    /\ pc = "done"
    /\ Len(centros_final) < Len(centros)
    /\ \E c \in Range(centros_final) : NumComLabel(pdvs, c.cluster_label) = 1

\* every PDV of ps carries the label of a centre of cs
I1(ps, cs) == \A k \in 1..Len(ps) : ps[k].cluster_label \in labels_ativos(cs)

\* the active set at the current position: the working list of the deficit
\* step while it runs, the list of the main loop elsewhere
AtivosAgora == IF EmDeficit THEN centros_ativos ELSE centros

C20_Passo ==
    \* after the repair, and from there to the end of the iteration
    /\ pc' \in {"excesso", "excesso_loop", "excesso_pdv", "deficit",
                "deficit_loop", "check"} => I1(pdvs', AtivosAgora')
    \* inside an elimination attempt a moved PDV is on an active centre too
    /\ pc' \in {"deficit_pdv", "deficit_rollback"} => I1(pdvs', AtivosAgora')
    \* a centre leaves the active set only when no PDV carries its label
    /\ (EmDeficit /\ centros_ativos' # centros_ativos) =>
          /\ Range(centros_ativos') \subseteq Range(centros_ativos)
          /\ \A c \in Range(centros_ativos) \ Range(centros_ativos') :
                /\ NumComLabel(pdvs, c.cluster_label) = 0
                /\ NumComLabel(pdvs', c.cluster_label) = 0
    /\ (pc = "deficit_loop" /\ pc' = "check") =>
          \A c \in Range(centros) \ Range(centros') :
              NumComLabel(pdvs', c.cluster_label) = 0

\* C20: once the repair of an iteration is done, and after the excess step
\* and after the deficit step of that iteration (and at every position in
\* between), every PDV carries the label of a centre of the current active
\* set; the deficit step takes a centre out of the active set only when no
\* PDV carries its label.
C20_I1NoLaco == [][C20_Passo]_vars

\* an iteration whose repair relabelled a PDV and whose deficit step removed
\* a centre has reached the convergence check
C20_Witness ==
    /\ pc = "check"
    /\ reparos > 0
    /\ Len(centros) < Len(centros_in)
    /\ I1(pdvs, centros)

C18_Passo ==
    (pc = "done" /\ pipe.etapa = "exec") =>
        LET n == Len(centros_final)
            k == Cardinality(labels_ativos(centros_final))
            old(j) == centros_final[j].cluster_label
            new(j) == centros_final'[j].cluster_label
        IN /\ pc' = "gerar_setores"
           \* the centres: same list, new labels exactly 0..k-1
           /\ Len(centros_final') = n
           /\ \A j \in 1..n : /\ centros_final'[j].lat = centros_final[j].lat
                              /\ centros_final'[j].lon = centros_final[j].lon
           /\ labels_ativos(centros_final') = 0..(k - 1)
           \* a bijection that keeps the order
           /\ \A a, b \in 1..n : /\ old(a) = old(b) <=> new(a) = new(b)
                                 /\ old(a) < old(b) => new(a) < new(b)
           \* each PDV gets the new label of the centre it was assigned to
           /\ Len(pdvs') = Len(pdvs)
           /\ \A q \in 1..Len(pdvs) :
                 /\ pdvs'[q].lat = pdvs[q].lat /\ pdvs'[q].lon = pdvs[q].lon
                 /\ \E j \in 1..n : /\ old(j) = pdvs[q].cluster_label
                                    /\ new(j) = pdvs'[q].cluster_label
           \* two PDVs share a label after iff they shared one before
           /\ \A q, r \in 1..Len(pdvs) :
                 pdvs[q].cluster_label = pdvs[r].cluster_label
                     <=> pdvs'[q].cluster_label = pdvs'[r].cluster_label

\* C18: the normalisation step of execute maps the k distinct labels of the
\* centres the balancer returned onto exactly 0..k-1, keeping their order, and
\* rewrites centres and PDVs through that map without raising: each PDV gets
\* the new label of the centre it was assigned to, two PDVs share a label
\* after it iff they did before, and a < b implies new(a) < new(b).
C18_Normalizacao == [][C18_Passo]_vars

\* two centres survived with a gap between their labels, and a PDV was relabelled
C18_Witness ==
    /\ pipe.etapa = "exec"
    /\ pc = "gerar_setores"
    /\ Len(centros_final) >= 2
    /\ pipe.antes[2] # centros_final
    /\ pipe.antes[1] # pdvs

\* execute was left by an exception after criar_run had created the run, and
\* the exception is not one raised by finalizar_run(status="error") itself
LevantouComRun ==
    /\ pipe.etapa = "exec"
    /\ pc = "levantou"
    /\ pipe.run # "nenhum"
    /\ pipe.excecao # "finalizar_run_error"

\* C19: when a step of execute raises after the run was created, the run is
\* finalized with status error and the exception reaches the caller; execute
\* returns normally only when nothing raised, and a run in which a step
\* raised is never left finalized as done.
C19_Original ==
    /\ LevantouComRun => pipe.run = "error" /\ pipe.k_final = 0
    /\ (pipe.etapa = "exec" /\ pc = "retornou") =>
           pipe.excecao = "" /\ pipe.run = "done"

\* --------------------------------------------------------------- C21
\* the running count of every centre of the searched list is its real count
ContagemExata ==
    \A c \in Range(vizinhos) :
        counts[c.cluster_label] = NumComLabel(pdvs, c.cluster_label)

\* C21: at every candidate search of the excess step and of the deficit step
\* the running count of each centre of the searched list is the number of
\* PDVs that carry its label at that moment, also in the attempts that follow
\* a rollback in the same pass; every move of the two steps was chosen with
\* the target's real count.
C21_ContagemExata ==
    /\ pc \in {"excesso_pdv", "deficit_pdv"} => ContagemExata
    /\ (ult.passo = "mov" /\ ult.fase \in {"excesso", "deficit"}) =>
           ult.cont_corrente = ult.cont_real

\* the first candidate search for centre 2 in the pass in which the attempt
\* on centre 0 had moved a PDV to centre 1 and was rolled back
C21_Witness ==
    /\ pdvs_in = PdvsDuasTentativas
    /\ pc = "deficit_pdv"
    /\ it = 1
    /\ lbl = 2
    /\ i = 1
    /\ <<"rollback", 0>> \in avisos
    /\ \E c \in Range(vizinhos) : c.cluster_label = 1

\* --------------------------------------------------------------- C22
\* C22: the deficit step drops an active centre that has no PDV at once, before
\* it processes a deficit centre that has PDVs: when the reallocation of a
\* deficit centre starts no centre of the searched list is without PDVs, and
\* when the step is over no active centre is without PDVs.
C22_Original ==
    /\ (pc = "deficit_pdv" /\ i = 1) =>
           \A c \in Range(vizinhos) : NumComLabel(pdvs, c.cluster_label) > 0
    /\ pc = "check" =>
           \A c \in Range(centros) : NumComLabel(pdvs, c.cluster_label) > 0

\* --------------------------------------------------------------- C23
\* C23: the deficit step processes a centre for elimination, discards it, or
\* raises the ValueError of the last centre for it, only when the centre has
\* fewer than min_pdv PDVs at that moment, the PDVs it received earlier in the
\* pass included.
C23_Original ==
    /\ pc \in {"deficit_pdv", "deficit_rollback"} => Len(pdvs_cluster) < min_pdv
    /\ \A d \in descartados : Cardinality(d.pdvs) < min_pdv
    /\ (pc = "erro" /\ erro = "Nao e possivel descartar o ultimo centro existente.") =>
           NumComLabel(pdvs, ult.lbl) < min_pdv

\* --------------------------------------------------------------- C24
\* the candidates the next PDV of the overloaded centre would have
CandidatosDoProximo ==
    candidatos_para_pdv(pdvs[pdvs_cluster[i]], vizinhos, counts, max_pdv,
                        tempo_max_min, v_kmh, FALSE, SemRef)

C24_Passo ==
    pc = "excesso_pdv" =>
        /\ excedente = 0 => (pdvs' = pdvs /\ pc' = "excesso_loop")
        /\ pdvs' # pdvs =>
              \E k \in 1..Len(pdvs) : \E new \in Labels \ {lbl} :
                  /\ pdvs[k].cluster_label = lbl
                  /\ pdvs' = [pdvs EXCEPT ![k].cluster_label = new]
                  /\ counts' = [counts EXCEPT ![lbl] = @ - 1, ![new] = @ + 1]
                  /\ excedente > 0
                  /\ excedente' = excedente - 1

\* C24: the excess step moves at most count - max_pdv PDVs out of an
\* overloaded centre and stops when the remaining excess is zero: while a
\* centre is processed the remaining excess is its count minus max_pdv and is
\* not negative, each move takes one PDV of the centre, lowers the source's
\* running count by one, raises the target's by one and lowers the excess by
\* one, and when the step is over every centre that was above max_pdv at its
\* start still has at least max_pdv PDVs.
C24_ExcessoLimitado ==
    /\ [][C24_Passo]_vars
    /\ [](pc = "excesso_pdv" =>
            /\ excedente >= 0
            /\ excedente = NumComLabel(pdvs, lbl) - max_pdv)
    /\ [](pc = "deficit" =>
            \A l \in Labels :
                NumComLabel(pdvs_rep, l) > max_pdv => NumComLabel(pdvs, l) >= max_pdv)

\* the excess of a centre is used up while a PDV of it that a neighbour
\* would still take has not been considered
C24_Witness ==
    /\ pc = "excesso_pdv"
    /\ excedente = 0
    /\ NumComLabel(pdvs, lbl) = max_pdv
    /\ i <= Len(pdvs_cluster)
    /\ CandidatosDoProximo # <<>>

\* --------------------------------------------------------------- C25
\* the labels that have more than max_pdv PDVs
Sobrecarregados == {l \in Labels : NumComLabel(pdvs, l) > max_pdv}

C25_Passo ==
    pc = "excesso" =>
        IF Sobrecarregados = {} THEN pc' = "deficit"
        ELSE /\ pc' = "excesso_loop"
             /\ {fila'[k][1] : k \in 1..Len(fila')} = Sobrecarregados
             /\ Len(fila') = Cardinality(Sobrecarregados)

\* C25: the excess step processes the centres above max_pdv, all of them, the
\* most loaded first: the centres still to process are listed by descending
\* count, and the count listed for each is the number of PDVs that carry its
\* label when it is reached.
C25_OrdemDoExcesso ==
    /\ [][C25_Passo]_vars
    /\ [](pc = "excesso_loop" =>
            /\ \A k \in 1..Len(fila) :
                  fila[k][2] = NumComLabel(pdvs, fila[k][1])
            /\ \A k \in 1..(Len(fila) - 1) : fila[k][2] >= fila[k + 1][2])

\* the less loaded of two overloaded centres is about to be processed, after
\* the more loaded one, which comes later in the PDV list, gave up a PDV
C25_Witness ==
    /\ pc = "excesso_loop"
    /\ ult.passo = "excesso_centro_fim"
    /\ alteracoes > 0
    /\ Len(fila) = 1
    /\ NumComLabel(pdvs_rep, lbl) > fila[1][2]
    /\ lbl > fila[1][1]

\* --------------------------------------------------------------- C26
\* the centres of the list cs that have room and are within the time ceiling
\* of PDV k
ViaveisEm(k, cs) ==
    {c \in Range(cs) :
        /\ NumComLabel(pdvs, c.cluster_label) < max_pdv
        /\ tempo_pdv_centro_min(pdvs[k], c, v_kmh) <= tempo_max_min}

\* pdvs_cluster lists the PDVs of the centre being processed, each once,
\* farthest from the centre first
BordaPrimeiro ==
    LET c == CentroDe(centros, lbl)
        d(j) == dist_pdv_centro_km(pdvs[pdvs_cluster[j]], c)
    IN /\ \A a, b \in 1..Len(pdvs_cluster) :
             /\ a < b => d(a) >= d(b)
             /\ a # b => pdvs_cluster[a] # pdvs_cluster[b]
       /\ \A k \in 1..Len(pdvs) :
             pdvs[k].cluster_label = lbl => k \in Range(pdvs_cluster)

C26_Passo ==
    (pc = "excesso_pdv" /\ excedente > 0 /\ i <= Len(pdvs_cluster)) =>
        LET k == pdvs_cluster[i]
        IN /\ pc' = "excesso_pdv"
           /\ i' = i + 1
           /\ \A j \in 1..Len(pdvs) : j # k => pdvs'[j] = pdvs[j]
           /\ IF ViaveisEm(k, vizinhos) = {}
              THEN pdvs' = pdvs /\ excedente' = excedente
              ELSE pdvs'[k].cluster_label # lbl

\* C26: the PDVs of an overloaded centre are considered farthest from the
\* centre first, one per step; the PDV considered is moved when a neighbour is
\* viable for it and is skipped otherwise, and after a skip the next, nearer
\* PDV is considered; the PDVs not yet considered still carry the centre's
\* label.
C26_BordaPrimeiro ==
    /\ [][C26_Passo]_vars
    /\ [](pc = "excesso_pdv" =>
            /\ BordaPrimeiro
            /\ \A j \in i..Len(pdvs_cluster) :
                  pdvs[pdvs_cluster[j]].cluster_label = lbl)

\* a PDV was moved out after a PDV farther from the centre had been skipped
C26_Witness ==
    /\ pc = "excesso_pdv"
    /\ ult.passo = "mov"
    /\ ult.fase = "excesso"
    /\ \E j \in 1..(i - 2) :
          /\ pdvs[pdvs_cluster[j]].cluster_label = lbl
          /\ dist_pdv_centro_km(pdvs[pdvs_cluster[j]], CentroDe(centros, lbl))
               > dist_pdv_centro_km(pdvs[ult.pdv], CentroDe(centros, lbl))

\* --------------------------------------------------------------- C27
\* distance in km between the centres of labels a and b
DistCentros(a, b) ==
    haversine(<<CentroDe(centros, a).lat, CentroDe(centros, a).lon>>,
              <<CentroDe(centros, b).lat, CentroDe(centros, b).lon>>)

\* no other active centre lies within the neighbour radius of centre l
SemVizinho(l) ==
    \A c \in Range(centros) :
        c.cluster_label # l => DistCentros(l, c.cluster_label) > max_merge_km

\* C27: every PDV moved by the excess step goes to a centre within
\* max_merge_km of the overloaded centre it leaves; an overloaded centre with
\* no other active centre within that radius keeps all its PDVs through the
\* excess step and stays above max_pdv; and the excess step raises no error.
C27_SoVizinhos ==
    /\ [](ult.passo = "mov" /\ ult.fase = "excesso" =>
            DistCentros(ult.de, ult.para) <= max_merge_km)
    /\ [](pc = "deficit" =>
            \A l \in labels_ativos(centros) :
                (NumComLabel(pdvs_rep, l) > max_pdv /\ SemVizinho(l)) =>
                    /\ \A k \in 1..Len(pdvs) :
                          pdvs_rep[k].cluster_label = l => pdvs[k].cluster_label = l
                    /\ NumComLabel(pdvs, l) > max_pdv
                    /\ <<"sem_vizinhos", l>> \in avisos)
    /\ [][(pc \in {"excesso", "excesso_loop", "excesso_pdv"}) => ~(pc' = "erro")]_vars

\* the excess step is over and an overloaded centre kept a PDV that a centre
\* beyond the radius has room for and is within the time ceiling of
C27_Witness ==
    /\ pc = "deficit"
    /\ \E l \in labels_ativos(centros) :
          /\ NumComLabel(pdvs_rep, l) > max_pdv
          /\ SemVizinho(l)
          /\ \E k \in 1..Len(pdvs) :
                /\ pdvs[k].cluster_label = l
                /\ ViaveisEm(k, SemCentro(centros, l)) # {}

\* --------------------------------------------------------------- C28
\* the labels that have PDVs, but fewer than min_pdv
EmFalta == {l \in Labels : NumComLabel(pdvs, l) > 0 /\ NumComLabel(pdvs, l) < min_pdv}

C28_Passo ==
    /\ pc = "deficit" =>
          IF EmFalta = {} THEN pc' = "check"
          ELSE /\ pc' = "deficit_loop"
               /\ Range(fila') = {<<l, NumComLabel(pdvs, l)>> : l \in EmFalta}
               /\ Len(fila') = Cardinality(EmFalta)
    /\ (pc = "deficit_loop" /\ fila # <<>>) =>
          /\ fila' = Tail(fila)
          /\ pc' \in {"deficit_pdv", "erro"} => Head(fila)[1] \in {lbl', ult'.lbl}
    /\ (pc = "deficit_pdv" /\ i <= Len(pdvs_cluster)) =>
          /\ \A j \in 1..Len(pdvs) : j # pdvs_cluster[i] => pdvs'[j] = pdvs[j]
          /\ pdvs' # pdvs => i' = i + 1

\* C28: the deficit step lists the centres that have fewer than min_pdv PDVs
\* (those that have any) by ascending count, the counts being those at the
\* start of the step, and processes them in the order of the list; the PDVs
\* of the centre being processed are taken farthest from that centre first,
\* one per step.
C28_OrdemDoDeficit ==
    /\ [][C28_Passo]_vars
    /\ [](EmDeficit => \A k \in 1..(Len(fila) - 1) : fila[k][2] <= fila[k + 1][2])
    /\ [](pc = "deficit_pdv" =>
            /\ BordaPrimeiro
            /\ \A j \in 1..Len(pdvs_cluster) :
                  (pdvs[pdvs_cluster[j]].cluster_label = lbl) <=> (j >= i))

\* the emptier centre, later in the PDV list, was discarded first, and of the
\* next centre the PDV farther from it, later in the PDV list, was moved first
C28_Witness ==
    /\ pc = "deficit_pdv"
    /\ it = 1
    /\ ult.passo = "mov"
    /\ ult.fase = "deficit"
    /\ i = 2
    /\ Len(pdvs_cluster) = 2
    /\ pdvs_cluster[1] > pdvs_cluster[2]
    /\ dist_pdv_centro_km(pdvs[pdvs_cluster[1]], CentroDe(centros, lbl))
         > dist_pdv_centro_km(pdvs[pdvs_cluster[2]], CentroDe(centros, lbl))
    /\ \E d \in descartados :
          /\ d.lbl > lbl
          /\ Cardinality(d.pdvs) < Len(pdvs_cluster)

\* --------------------------------------------------------------- C29
\* the centres still active in the pass, other than the one being eliminated,
\* that lie within max_merge_km of it and are viable for PDV k
ViaveisNoRaio(k) ==
    {c \in ViaveisEm(k, SemCentro(centros_ativos, lbl)) :
        DistCentros(lbl, c.cluster_label) <= max_merge_km}

C29_Passo ==
    (pc = "deficit_pdv" /\ i <= Len(pdvs_cluster) /\ pdvs' # pdvs) =>
        LET k == pdvs_cluster[i]
            new == pdvs'[k].cluster_label
        IN /\ new # lbl
           /\ new \in labels_ativos(centros_ativos)
           /\ \A d \in descartados : d.it = it => new # d.lbl
           /\ DistCentros(lbl, new) > max_merge_km => ViaveisNoRaio(k) = {}

\* C29: a PDV of a centre being eliminated goes to a centre beyond
\* max_merge_km of that centre only when no centre that is still active and
\* within the radius has room for it and is within the time ceiling of it at
\* that moment; its target is never the centre being eliminated nor a centre
\* discarded earlier in the pass.
C29_RaioPrimeiro == [][C29_Passo]_vars

\* a move of the fallback search: the target is beyond the radius of the
\* centre being eliminated while another centre is within it
C29_Witness ==
    /\ pc = "deficit_pdv"
    /\ ult.passo = "mov"
    /\ ult.fase = "deficit"
    /\ DistCentros(ult.de, ult.para) > max_merge_km
    /\ \E c \in Range(centros_ativos) :
          /\ c.cluster_label # lbl
          /\ DistCentros(lbl, c.cluster_label) <= max_merge_km

\* --------------------------------------------------------------- C30
\* the centres of the set S that the search accepts for PDV k: capacity left
\* by the running counts, and travel time within the ceiling
Aceitos(k, S) ==
    {c \in S : /\ max_pdv - counts[c.cluster_label] > 0
               /\ tempo_pdv_centro_min(pdvs[k], c, v_kmh) <= tempo_max_min}

\* the search for PDV k in the set S ends as the ranking requires
Escolha(k, S) ==
    IF Aceitos(k, S) = {}
    THEN pdvs' = pdvs
    ELSE \E c \in Aceitos(k, S) :
            /\ pdvs' = [pdvs EXCEPT ![k].cluster_label = c.cluster_label]
            /\ \A c2 \in Aceitos(k, S) :
                  LET t(x) == tempo_pdv_centro_min(pdvs[k], x, v_kmh)
                      d(x) == dist_pdv_centro_km(pdvs[k], x)
                  IN t(c) < t(c2) \/ (t(c) = t(c2) /\ d(c) <= d(c2))

\* the centres of the list cs within max_merge_km of the centre of label l
NoRaioDe(cs, l) ==
    {c \in Range(cs) :
        haversine(<<CentroDe(centros, l).lat, CentroDe(centros, l).lon>>,
                  <<c.lat, c.lon>>) <= max_merge_km}

C30_Passo ==
    /\ (pc = "reparo" /\ Orfaos # {}) =>
          Escolha(CHOOSE x \in Orfaos : \A y \in Orfaos : x <= y, Range(centros))
    /\ (pc = "excesso_pdv" /\ excedente > 0 /\ i <= Len(pdvs_cluster)) =>
          Escolha(pdvs_cluster[i], Range(vizinhos))
    /\ (pc = "deficit_pdv" /\ i <= Len(pdvs_cluster)) =>
          IF Aceitos(pdvs_cluster[i], NoRaioDe(vizinhos, lbl)) # {}
          THEN Escolha(pdvs_cluster[i], NoRaioDe(vizinhos, lbl))
          ELSE Escolha(pdvs_cluster[i], Range(vizinhos))

\* C30: in every candidate search (repair, excess, deficit within the radius
\* and its fallback) the centre chosen for the PDV is one of the searched
\* centres with capacity left and travel time within tempo_max_min, of least
\* travel time among them and, among those of least time, of least distance;
\* when no searched centre is such, the search changes no label.
C30_Ranking == [][C30_Passo]_vars

\* a PDV was given the centre of least travel time although a centre earlier
\* in the searched list, with room and within the ceiling, takes longer
C30_Witness ==
    /\ ult.passo = "mov"
    /\ ult.fase = "reparo"
    /\ \E c \in Range(centros) :
          /\ c.cluster_label < ult.para
          /\ NumComLabel(pdvs, c.cluster_label) < max_pdv
          /\ tempo_pdv_centro_min(pdvs[ult.pdv], c, v_kmh) <= tempo_max_min
          /\ tempo_pdv_centro_min(pdvs[ult.pdv], c, v_kmh)
               > tempo_pdv_centro_min(pdvs[ult.pdv], CentroDe(centros, ult.para), v_kmh)

\* --------------------------------------------------------------- C31
\* the sum, over the centres of the list cs, of the number of PDVs that carry
\* the centre's label
RECURSIVE SomaContagens(_)
SomaContagens(cs) ==
    IF cs = <<>> THEN 0
    ELSE NumComLabel(pdvs, Head(cs).cluster_label) + SomaContagens(Tail(cs))

\* the first repair of the call has run to its end
AposPrimeiroReparo ==
    /\ it > 1 \/ pc \notin {"iter", "reparo"}
    /\ erro # "Sem candidatos viaveis para realocar PDV apos remocao de centro."

\* C31: the call never adds or removes a PDV nor moves one; once the first
\* repair has run, every PDV carries the label of one active centre, and the
\* numbers of PDVs of the active centres (of the main list, of the working
\* list of the deficit step, and of the returned list) add up to the number
\* of PDVs.
C31_Conservacao ==
    /\ Len(pdvs) = Len(pdvs_in)
    /\ \A k \in 1..Len(pdvs) :
          pdvs[k].lat = pdvs_in[k].lat /\ pdvs[k].lon = pdvs_in[k].lon
    /\ AposPrimeiroReparo =>
          /\ \A k \in 1..Len(pdvs) : pdvs[k].cluster_label \in labels_ativos(centros)
          /\ SomaContagens(centros) = Len(pdvs)
          /\ EmDeficit => SomaContagens(centros_ativos) = Len(pdvs)
          /\ pc = "done" => SomaContagens(centros_final) = Len(pdvs)

\* a centre has just been discarded in a call whose repair had to label a PDV
\* that arrived without a label
C31_Witness ==
    /\ pc = "deficit_loop"
    /\ ult.passo = "descartado"
    /\ Len(centros_ativos) < Len(centros)
    /\ \E k \in 1..Len(pdvs) : pdvs_in[k].cluster_label = None

\* --------------------------------------------------------------- C32
\* the position in cs of the first centre at the least distance from PDV p
PrimeiroMaisPerto(p, cs) ==
    CHOOSE j \in 1..Len(cs) :
        /\ \A m \in 1..Len(cs) : dist_pdv_centro_km(p, cs[j]) <= dist_pdv_centro_km(p, cs[m])
        /\ \A m \in 1..(j - 1) : dist_pdv_centro_km(p, cs[m]) > dist_pdv_centro_km(p, cs[j])

C32_Passo ==
    pc = "atribuir" =>
        /\ centros' = centros
        /\ Len(pdvs') = Len(pdvs)
        /\ \A k \in 1..Len(pdvs) :
              /\ pdvs'[k].lat = pdvs[k].lat
              /\ pdvs'[k].lon = pdvs[k].lon
              /\ pdvs'[k].cluster_label =
                    centros[PrimeiroMaisPerto(pdvs[k], centros)].cluster_label

\* C32: the initial assignment gives every PDV the label of a centre at the
\* least distance from it, the first such centre of the list when several are
\* at that distance, and changes no centre and no coordinate.
C32_AtribuicaoInicial == [][C32_Passo]_vars

\* the assignment has run and a PDV midway between two centres has the label
\* of the one that comes first in the list
C32_Witness ==
    /\ pipe.etapa = "exec"
    /\ pc = "iter"
    /\ it = 1
    /\ pdvs = pdvs_in
    /\ \E k \in 1..Len(pdvs) : \E a, b \in 1..Len(centros) :
          /\ a < b
          /\ pdvs[k].cluster_label = centros[a].cluster_label
          /\ dist_pdv_centro_km(pdvs[k], centros[a]) = dist_pdv_centro_km(pdvs[k], centros[b])
          /\ \A m \in 1..Len(centros) :
                dist_pdv_centro_km(pdvs[k], centros[a]) <= dist_pdv_centro_km(pdvs[k], centros[m])

\* --------------------------------------------------------------- C33
C33_Passo ==
    pc = "carregar" =>
        /\ pdvs' = pdvs
        /\ centros' = centros
        /\ IF pdvs = <<>> \/ centros = <<>>
           THEN /\ pc' = "levantou"
                /\ pipe'.excecao \in {"Nenhum PDV encontrado.",
                                      "Nenhum centro valido apos geocodificacao."}
                /\ pipe'.run = "nenhum"
           ELSE pc' = "criar_run"

\* C33: when the PDV list or the centre list is empty, execute raises a
\* ValueError before it creates the run and before the initial assignment: no
\* PDV gets a label, and the assignment never runs on an empty list.
C33_EntradaVazia ==
    /\ [][C33_Passo]_vars
    /\ [](pc = "atribuir" => (pdvs # <<>> /\ centros # <<>>))
    /\ []((pipe.etapa = "exec" /\ (pdvs_in = <<>> \/ centros_in = <<>>)) =>
            /\ pc \in {"carregar", "levantou"}
            /\ \A k \in 1..Len(pdvs) : pdvs[k].cluster_label = None)

\* execute has raised for an empty centre list with PDVs loaded
C33_Witness ==
    /\ pipe.etapa = "exec"
    /\ pc = "levantou"
    /\ centros = <<>>
    /\ pdvs # <<>>
    /\ pipe.excecao = "Nenhum centro valido apos geocodificacao."
    /\ pipe.run = "nenhum"

\* --------------------------------------------------------------- C34
\* the positions of the excess step and of the deficit step
NosDoisPassos ==
    pc \in {"excesso", "excesso_loop", "excesso_pdv",
            "deficit", "deficit_loop", "deficit_pdv", "deficit_rollback"}

C34_Passo ==
    (v_kmh <= 0 /\ NosDoisPassos) =>
        /\ pdvs' = pdvs
        /\ \A c \in Range(centros) :
              NumComLabel(pdvs, c.cluster_label) > 0 => c \in Range(centros')
        /\ EmDeficit /\ EmDeficit' => centros_ativos' = centros_ativos

\* C34: with v_kmh <= 0 the travel time of every PDV to every centre is the
\* sentinel, which is above tempo_max_min, so that no candidate search accepts
\* a centre: the excess step and the deficit step change no label and discard
\* no centre that has PDVs.
C34_SemVelocidade ==
    /\ [](v_kmh <= 0 =>
            \A k \in 1..Len(pdvs) : \A c \in Range(centros_in) :
                /\ tempo_pdv_centro_min(pdvs[k], c, v_kmh) = TempoInfinito
                /\ tempo_pdv_centro_min(pdvs[k], c, v_kmh) > tempo_max_min)
    /\ [][C34_Passo]_vars
    /\ []((v_kmh <= 0 /\ pc = "done") => (pdvs = pdvs_rep /\ descartados = {}))

\* a call with no speed has returned with a centre still above max_pdv whose
\* neighbour has room and would be within the time ceiling at a positive speed
C34_Witness ==
    /\ v_kmh <= 0
    /\ pc = "done"
    /\ \E l \in labels_ativos(centros) : \E c \in Range(centros) :
          /\ <<"excedente_mantido", l>> \in avisos
          /\ c.cluster_label # l
          /\ DistCentros(l, c.cluster_label) <= max_merge_km
          /\ NumComLabel(pdvs, c.cluster_label) < max_pdv
          /\ \E k \in 1..Len(pdvs) : \E v \in Velocidades :
                /\ pdvs[k].cluster_label = l
                /\ tempo_pdv_centro_min(pdvs[k], c, v) <= tempo_max_min

\* --------------------------------------------------------------- C35
\* the sum of n_pdvs over the list of Setores ss
RECURSIVE SomaSetores(_)
SomaSetores(ss) ==
    IF ss = <<>> THEN 0 ELSE Head(ss).n_pdvs + SomaSetores(Tail(ss))

\* the positions in ss of the Setores with label l
SetoresDe(ss, l) == {k \in 1..Len(ss) : ss[k].cluster_label = l}

\* C35: _gerar_setores emits exactly one Setor for each centre that has PDVs
\* and none for a centre without PDVs; each Setor has the label and the
\* coordinates of its centre, n_pdvs is the number of PDVs with that label, and
\* the n_pdvs of all Setores sum to the number of PDVs. The step changes no
\* PDV and no centre.
C35_Setores ==
    /\ [][(pc = "gerar_setores" /\ pc' = "salvar_setores") =>
            /\ pdvs' = pdvs
            /\ centros_final' = centros_final]_vars
    /\ [](pc = "salvar_setores" =>
            LET ss == pipe.setores
            IN /\ \A c \in Range(centros_final) :
                     Cardinality(SetoresDe(ss, c.cluster_label)) =
                        IF NumComLabel(pdvs, c.cluster_label) > 0 THEN 1 ELSE 0
               /\ \A k \in 1..Len(ss) :
                     \E c \in Range(centros_final) :
                        /\ ss[k].cluster_label = c.cluster_label
                        /\ ss[k].centro_lat = c.lat
                        /\ ss[k].centro_lon = c.lon
                        /\ ss[k].n_pdvs = NumComLabel(pdvs, c.cluster_label)
                        /\ ss[k].n_pdvs > 0
               /\ SomaSetores(ss) = Len(pdvs))

\* Setores were generated for two centres while a third centre, between them
\* in the list, had no PDV and was skipped
C35_Witness ==
    /\ pc = "salvar_setores"
    /\ Len(centros_final) = 3
    /\ NumComLabel(pdvs, centros_final[2].cluster_label) = 0
    /\ Len(pipe.setores) = 2
    /\ pipe.setores[2].cluster_label = centros_final[3].cluster_label
    /\ pipe.setores[2].n_pdvs = 2

\* --------------------------------------------------------------- C36
\* the record c is one of the input records, with the same fields
RegistroDeEntrada(c) ==
    \E c0 \in Range(centros_in) :
        /\ DOMAIN c = DOMAIN c0
        /\ \A f \in DOMAIN c0 : c[f] = c0[f]

\* the record c is a copy of an input record with the distance to the
\* reference centre added, and nothing else
CopiaComDistancia(c) ==
    \E c0 \in Range(centros_in) :
        /\ DOMAIN c = DOMAIN c0 \cup {"dist_km_from_ref"}
        /\ \A f \in DOMAIN c0 : c[f] = c0[f]

\* C36: the balancer works on copies of the centre records: the input records
\* stay as they were, every record of the balancer's own lists and every
\* returned record has the fields and the values of an input record, and the
\* distance field of a neighbourhood exists only on the neighbourhood's copies.
C36_Copias ==
    /\ [][centros_in' = centros_in]_vars
    /\ [](/\ \A c \in Range(centros) : RegistroDeEntrada(c)
          /\ \A c \in Range(centros_ativos) : RegistroDeEntrada(c)
          /\ \A c \in Range(centros_final) : RegistroDeEntrada(c)
          /\ \A c \in Range(vizinhos) :
                RegistroDeEntrada(c) \/ CopiaComDistancia(c)
          /\ pc = "done" =>
                \A k \in 1..Len(centros_final) :
                    \E j \in 1..Len(centros_in) :
                        centros_final[k] = centros_in[j])

\* a call has returned fewer centres than it was given; the last
\* neighbourhood it computed holds a returned centre with the distance field,
\* and the returned record of that centre has no such field
C36_Witness ==
    /\ pc = "done"
    /\ Len(centros_final) < Len(centros_in)
    /\ \E v \in Range(vizinhos) : \E c \in Range(centros_final) :
          /\ v.cluster_label = c.cluster_label
          /\ "dist_km_from_ref" \in DOMAIN v
          /\ "dist_km_from_ref" \notin DOMAIN c

\* --------------------------------------------------------------- C37
\* the parameters of the call are not valid
ParametrosInvalidos ==
    \/ centros_in = <<>>
    \/ min_pdv <= 0
    \/ max_pdv <= 0
    \/ min_pdv > max_pdv
    \/ tempo_max_min <= 0

\* C37: a call with an empty centre list, min_pdv <= 0, max_pdv <= 0,
\* min_pdv > max_pdv or tempo_max_min <= 0 raises at the parameter checks,
\* before any PDV label or any centre has been changed; a call with valid
\* parameters passes the checks.
C37_Validacao ==
    /\ [](ParametrosInvalidos =>
            /\ pc \in {"valida", "erro"}
            /\ pdvs = pdvs_in
            /\ centros = centros_in
            /\ centros_final = <<>>
            /\ reparos = 0
            /\ pc = "erro" =>
                  erro \in {"centros vazio no balanceador.",
                            "min_pdv/max_pdv invalidos.",
                            "tempo_max_min invalido."})
    /\ [][pc = "valida" =>
            /\ pdvs' = pdvs
            /\ centros' = centros
            /\ ParametrosInvalidos <=> pc' = "erro"
            /\ ~ParametrosInvalidos <=> (pc' = "iter" /\ erro' = "")]_vars

\* a call has raised for a time ceiling of zero, with valid counts, centres
\* and an unlabelled PDV that the first repair would have labelled
C37_Witness ==
    /\ pc = "erro"
    /\ erro = "tempo_max_min invalido."
    /\ tempo_max_min = 0
    /\ centros # <<>>
    /\ min_pdv > 0 /\ min_pdv <= max_pdv
    /\ \E k \in 1..Len(pdvs) : pdvs[k].cluster_label = None

\* --------------------------------------------------------------- C38
\* a step of execute finalizes as error a run that was finalized as done
DoneParaError ==
    /\ pipe.etapa = "exec"
    /\ pipe.run = "done"
    /\ pipe'.run = "error"

\* execute has returned or raised with a run that was created and, although
\* no call of finalizar_run failed, was never finalized
SaiuSemFinalizar ==
    /\ pipe.etapa = "exec"
    /\ pc \in {"levantou", "retornou"}
    /\ pipe.run = "criado"
    /\ pipe.excecao # "finalizar_run_error"

\* C38: a run that execute has finalized with status done is never finalized
\* with status error afterwards, and every run that was created is finalized,
\* as done or as error, by the time execute returns or raises.
C38_Original ==
    /\ [][~DoneParaError]_vars
    /\ []~SaiuSemFinalizar

====
